---- MODULE Spec2Model ----
(***************************************************************************)
(* A model of the product-discovery pipeline of dropsniperai:              *)
(*   - AIProductScanner._validate_product       (services/ai_scanner.py)   *)
(*   - AIProductScanner.scan_trending_products  (services/ai_scanner.py)   *)
(*   - the per-source collectors                (services/scanners.py)     *)
(*   - detect_store_changes                     (services/competitor_spy)  *)
(*   - ScanScheduler.run_scheduled_scans        (services/scheduler.py)    *)
(*   - ScanScheduler.start and its cron jobs    (services/scheduler.py)    *)
(*                                                                         *)
(* Numbers are fixed-point: a Python number x is the integer 100 * x       *)
(* (hundredths), so 29.99 is 2999 and the score 50 is 5000.                *)
(***************************************************************************)
EXTENDS Integers, Sequences, FiniteSets, TLC

VARIABLES
    \* ---- _validate_product, run on one dict --------------------------
    vin,            \* the product dict handed to _validate_product
    vout,           \* the call's result; res is "pending" until it ran
    \* ---- detect_store_changes ----------------------------------------
    old_products,   \* List[str]: the stored snapshot
    new_products,   \* List[Dict]: the names of the freshly pulled catalog
    changes,        \* the dict detect_store_changes returns, once it ran
    \* ---- the per-source collectors (services/scanners.py) ------------
    focus,          \* the one collector called directly, or "all" in a full scan
    cstatus,        \* per source: "idle", "running", "returned" or "raised"
    cstep,          \* per source: the strategy (seed keyword) reached
    cproducts,      \* per source: the local list `products`
    cresult,        \* per source: the list the collector returned
    attempted,      \* per source: the strategies run so far with their outputs
                    \* (kept for the collector called directly)
    nonEmptySeen,   \* per source: some strategy returned a non-empty list
    \* ---- AIProductScanner.run_full_scan ------------------------------
    spc,            \* where scan_trending_products is: "idle", "scrape",
                    \* "branch", "enrich" or "done"
    raw_products,   \* the candidates the scrapers yielded
    source_stats,   \* per source: how many it yielded
    total_products, \* total_products of ProductScoutEngine.run_full_scan
    ai_calls,       \* requests sent to the reasoning service
    aiKind,         \* how the request ended: "none", "raise", "badjson", "json"
    sresult,        \* what run_full_scan returned (or that it raised)
    \* ---- ScanScheduler.run_scheduled_scans ---------------------------
    clock,          \* the wall clock, in minutes since the scheduler started
    now,            \* `now`, read once at the head of a run
    sstatus,        \* the run: "idle", "loop", "done" or "aborted"
    idx,            \* the position of the for loop in `users`
    userdocs,       \* db.users: per account its tier and last_scan_at
    batch,          \* `users`: the documents the run's find() returned
    checked,        \* the due checks evaluated, in order, with should_scan
    scanned,        \* the accounts run_user_scan was called for, in order
    failures,       \* the loop positions at which an exception was raised
    scan_history,   \* db.scan_history: the accounts of the records inserted
    \* ---- _enrich_images, called on its own ---------------------------
    ipass,          \* 0 before the call, 1 during it, 2 during a call on its output
    iproducts,      \* the image_url of each product as the current call got it
    iout,           \* the image_url of each product now
    istate,         \* per product: "waiting", "fetching" (lookup in flight), "done"
    ilooked,        \* per product: lookups issued for it in the current call
    ifirst,         \* the image_urls the first call returned
    \* ---- the cron jobs of ScanScheduler.start -----------------------
    eday,           \* the Eastern calendar day, counted from 0
    eminute,        \* the Eastern wall clock, in minutes since midnight
    utc_offset,     \* hours Eastern time is behind UTC
    started,        \* when start() ran (day and minute), NotStarted before
    due,            \* the jobs whose trigger fired and that have not run yet
    scan_job,       \* run_scheduled_scans: "idle", or "running" from its start
                    \* to the end of its loop over the accounts
    daily_products, \* db.daily_products: scan_date, is_active, archived_at
    inserted,       \* how many rows were ever inserted
    archivedOn,     \* the Eastern days on which archive_daily_products ran
    reportedOn,     \* the Eastern days on which send_daily_reports ran
    \* ---- reading db.daily_products for one account ------------------
    dp,             \* db.daily_products: user_id, scan_date, is_active, score
    caller,         \* the account the report is for, or that calls the route
    shown,          \* the rows handed to that account, and by which query
    \* ---- scrape_shopify_store ------------------------------------------
    page,           \* `page`, the catalog page to request next
    fetched,        \* len(all_products)
    requests,       \* catalog requests sent so far
    pstatus,        \* "idle", "loop", "fetched" (the loop ended) or "returned"
    total_items,    \* result["total_products"] of the dict returned
    \* ---- scan_competitor, pull after pull of one store ---------------
    products_snapshot,  \* the store document's products_snapshot
    new_products_count, \* the store document's new_products_count
    pulls,          \* how many times scan_competitor ran for the store
    added_sum,      \* the sum of added_count over those runs
    prev_snapshot,  \* products_snapshot before the latest run
    last_pull,      \* what scrape_shopify_store gave the latest run
    last_changes,   \* the changes the latest run returned
    alerts,         \* the new_product alerts inserted, as their product sets
    scan_out,       \* the results run_full_scan returned to run_user_scan
    product_docs,   \* the daily_products rows _process_scan_results inserted
    processed       \* _process_scan_results has returned

validateVars  == <<vin, vout>>
diffVars      == <<old_products, new_products, changes>>
collectorVars == <<focus, cstatus, cstep, cproducts, cresult, attempted, nonEmptySeen>>
scanVars      == <<spc, raw_products, source_stats, total_products, ai_calls, aiKind,
                   sresult>>
schedVars     == <<clock, now, sstatus, idx, userdocs, batch, checked, scanned,
                   failures, scan_history>>
imageVars     == <<ipass, iproducts, iout, istate, ilooked, ifirst>>
cronVars      == <<eday, eminute, utc_offset, started, due, scan_job, daily_products,
                   inserted, archivedOn, reportedOn>>
readVars      == <<dp, caller, shown>>
pageVars      == <<page, fetched, requests, pstatus, total_items>>
storeVars     == <<products_snapshot, new_products_count, pulls, added_sum,
                   prev_snapshot, last_pull, last_changes, alerts>>
processVars   == <<scan_out, product_docs, processed>>
vars == <<validateVars, diffVars, collectorVars, scanVars, schedVars, imageVars,
          cronVars, readVars, pageVars, storeVars, processVars>>

\* what an action of one part leaves alone
notValidate  == <<diffVars, collectorVars, scanVars, schedVars, imageVars,
                  cronVars, readVars, pageVars, storeVars, processVars>>
notDiff      == <<validateVars, collectorVars, scanVars, schedVars, imageVars,
                  cronVars, readVars, pageVars, storeVars, processVars>>
notCollector == <<validateVars, diffVars, scanVars, schedVars, imageVars,
                  cronVars, readVars, pageVars, storeVars, processVars>>
notScan      == <<validateVars, diffVars, schedVars, imageVars, cronVars,
                  readVars, pageVars, storeVars, processVars>>
notSched     == <<validateVars, diffVars, collectorVars, scanVars, imageVars,
                  cronVars, readVars, pageVars, storeVars, processVars>>
notImages    == <<validateVars, diffVars, collectorVars, scanVars, schedVars,
                  cronVars, readVars, pageVars, storeVars, processVars>>
notCron      == <<validateVars, diffVars, collectorVars, scanVars, schedVars,
                  imageVars, readVars, pageVars, storeVars, processVars>>
notRead      == <<validateVars, diffVars, collectorVars, scanVars, schedVars,
                  imageVars, cronVars, pageVars, storeVars, processVars>>
notPage      == <<validateVars, diffVars, collectorVars, scanVars, schedVars,
                  imageVars, cronVars, readVars, storeVars, processVars>>
notStore     == <<validateVars, diffVars, collectorVars, scanVars, schedVars,
                  imageVars, cronVars, readVars, pageVars, processVars>>
notProcess   == <<validateVars, diffVars, collectorVars, scanVars, schedVars,
                  imageVars, cronVars, readVars, pageVars, storeVars>>

Min(a, b) == IF a < b THEN a ELSE b
Max(a, b) == IF a > b THEN a ELSE b
Range(s) == {s[i] : i \in 1..Len(s)}

(***************************************************************************)
(* JSON values as Python sees them.  k is the kind, h the value in         *)
(* hundredths (0 when the kind carries none).                              *)
(*   absent   the key is not in the dict                                   *)
(*   null     None                                                         *)
(*   num      a finite int or float (True/False are the ints 1/0)          *)
(*   strint   a string holding an integer literal, "75"                    *)
(*   strdec   a string holding a decimal literal, "75.5"                   *)
(*   strbad   a non-empty string that is no number, "high"                 *)
(*   strempty ""                                                           *)
(*   obj      a non-empty list or dict                                     *)
(*   inf      float('inf')  (json.loads accepts Infinity)                  *)
(*   nan      float('nan')  (json.loads accepts NaN)                       *)
(***************************************************************************)
Val(k, h) == [k |-> k, h |-> h]
Absent   == Val("absent", 0)
Null     == Val("null", 0)
Num(h)   == Val("num", h)
StrInt(n) == Val("strint", 100 * n)
StrDec(h) == Val("strdec", h)
StrBad   == Val("strbad", 0)
StrEmpty == Val("strempty", 0)
Obj      == Val("obj", 0)
Inf      == Val("inf", 0)
NaN      == Val("nan", 0)

\* bool(v) of a present value
Truthy(v) ==
    CASE v.k = "null"     -> FALSE
      [] v.k = "num"      -> v.h # 0
      [] v.k = "strempty" -> FALSE
      [] OTHER            -> TRUE

\* product.get(key, default) or default
GetOr(v, default) ==
    IF v.k = "absent" THEN default
    ELSE IF Truthy(v) THEN v ELSE default

\* the result of a coercion: err is "none" or the exception raised
Ok(h)    == [err |-> "none", h |-> h]
Raise(e) == [err |-> e, h |-> 0]

\* int() truncates toward zero
TruncInt(h) == IF h >= 0 THEN h \div 100 ELSE -((-h) \div 100)

\* int(v), as an integer
ToInt(v) ==
    CASE v.k = "num"      -> Ok(TruncInt(v.h))
      [] v.k = "strint"   -> Ok(v.h \div 100)
      [] v.k = "strdec"   -> Raise("ValueError")
      [] v.k = "strbad"   -> Raise("ValueError")
      [] v.k = "strempty" -> Raise("ValueError")
      [] v.k = "nan"      -> Raise("ValueError")
      [] v.k = "inf"      -> Raise("OverflowError")
      [] v.k = "obj"      -> Raise("TypeError")
      [] v.k = "null"     -> Raise("TypeError")

\* float(v), in hundredths; the float fields of the inputs are finite
ToFloat(v) ==
    CASE v.k = "num"      -> Ok(v.h)
      [] v.k = "strint"   -> Ok(v.h)
      [] v.k = "strdec"   -> Ok(v.h)
      [] v.k = "strbad"   -> Raise("ValueError")
      [] v.k = "strempty" -> Raise("ValueError")
      [] v.k = "obj"      -> Raise("TypeError")
      [] v.k = "null"     -> Raise("TypeError")

(***************************************************************************)
(* Product names.  A name is its text (base) and its length; slicing       *)
(* [:100] keeps the text and caps the length.                              *)
(***************************************************************************)
NameStr(base, len) == [k |-> "str", base |-> base, len |-> len]
NameAbsent == [k |-> "absent", base |-> "", len |-> 0]
NameNull   == [k |-> "null", base |-> "", len |-> 0]
NameTruthy(n) == n.k = "str" /\ n.len > 0

\* str(name)[:100]
NameCap == 100

\* (mutant) the name is not cut
TruncateNone(n, cap) == n

\* s[:cap]
Truncate(n, cap) == [n EXCEPT !.len = Min(n.len, cap)]

\* A URL is its scheme prefix, the text after it and that text's length:
\* "//cdn/x.jpg" is ImgUrl("//", "cdn/x.jpg", 9); the empty string is NoImage.
ImgUrl(pre, body, n) == [pre |-> pre, body |-> body, n |-> n]
NoImage == ImgUrl("", "", 0)

\* if image_url.startswith("//"): image_url = "https:" + image_url
FixProtocolRelative(u) == IF u.pre = "//" THEN [u EXCEPT !.pre = "https://"] ELSE u

\* (mutant) the score is passed through unclamped
ClampNone(n) == n

\* max(0, min(100, n))
Clamp(n) == Max(0, Min(100, n))

\* round(num / den, 0) for num >= 0, den > 0: Python rounds half to even
RoundHalfEven(num, den) ==
    LET q == num \div den
        r == num % den
    IN  IF 2 * r < den THEN q
        ELSE IF 2 * r > den THEN q + 1
        ELSE IF q % 2 = 0 THEN q ELSE q + 1

\* (mutant) the difference is divided by the cost: a markup, not a margin
AutoMarginOnCost(source_cost, recommended_price) ==
    10 * RoundHalfEven((recommended_price - source_cost) * 1000, source_cost)

\* round((recommended_price - source_cost) / recommended_price * 100, 1),
\* in hundredths of a percent
AutoMargin(source_cost, recommended_price) ==
    10 * RoundHalfEven((recommended_price - source_cost) * 1000, recommended_price)

\* if not margin_percent and source_cost > 0 and recommended_price > source_cost
MarginMissing(margin_percent, source_cost, recommended_price) ==
    margin_percent = 0 /\ source_cost > 0 /\ recommended_price > source_cost

NoProduct == [name |-> NameAbsent]

\* the coercions of _validate_product in the order Python evaluates them
ValidateSteps(product) ==
    LET source_cost       == ToFloat(GetOr(product.source_cost, Num(0)))
        recommended_price == ToFloat(GetOr(product.recommended_price, Num(0)))
        margin_percent    == ToFloat(GetOr(product.margin_percent, Num(0)))
        overall           == ToInt(GetOr(product.overall_score, Num(5000)))
        trend             == ToInt(GetOr(product.trend_score, Num(5000)))
        overall_score     == Clamp(overall.h)
        dflt              == Num(100 * overall_score)
    IN  << source_cost, recommended_price, margin_percent, overall, trend,
           ToInt(GetOr(product.estimated_views, Num(0))),
           ToInt(GetOr(product.competition_score, dflt)),
           ToInt(GetOr(product.profit_score, dflt)),
           ToInt(GetOr(product.active_fb_ads, Num(0))),
           ToFloat(GetOr(product.trend_percent, Num(0))),
           ToInt(GetOr(product.search_volume, Num(0))),
           ToInt(GetOr(product.shopify_stores, Num(0))) >>

\* the exception the first failing coercion raises, "none" when all succeed
FirstError(steps) ==
    IF \A i \in 1..Len(steps) : steps[i].err = "none" THEN "none"
    ELSE steps[CHOOSE i \in 1..Len(steps) :
                   /\ steps[i].err # "none"
                   /\ \A j \in 1..(i - 1) : steps[j].err = "none"].err

\* except (ValueError, TypeError): return None
CaughtByValidate(e) == e \in {"ValueError", "TypeError"}

\* a text field the dict does not have
NoText == "<absent>"

\* str(product.get(key, default)); the slices [:50] and [:200] keep the short
\* texts of the model whole
TextOr(v, default) == IF v = NoText THEN default ELSE v

\* AIProductScanner._validate_product
ValidateProduct(product) ==
    IF ~NameTruthy(product.name) THEN [res |-> "None", p |-> NoProduct]
    ELSE
      LET s   == ValidateSteps(product)
          err == FirstError(s)
      IN  IF err # "none" THEN
              IF CaughtByValidate(err)
              THEN [res |-> "None", p |-> NoProduct]
              ELSE [res |-> "raise", p |-> NoProduct]
          ELSE
            LET overall_score == Clamp(s[4].h)
            IN  [res |-> "product",
                 p |-> [name              |-> Truncate(product.name, NameCap),
                        image_url         |-> FixProtocolRelative(product.image_url),
                        source            |-> TextOr(product.source, "unknown"),
                        category          |-> TextOr(product.category, "General"),
                        why_trending      |-> TextOr(product.why_trending, ""),
                        saturation_level  |-> TextOr(product.saturation_level, "medium"),
                        trend_direction   |-> TextOr(product.trend_direction, "stable"),
                        source_cost       |-> s[1].h,
                        recommended_price |-> s[2].h,
                        margin_percent    |->
                            IF MarginMissing(s[3].h, s[1].h, s[2].h)
                            THEN AutoMargin(s[1].h, s[2].h) ELSE s[3].h,
                        trend_score       |-> Clamp(s[5].h),
                        overall_score     |-> overall_score,
                        competition_score |-> Clamp(s[7].h),
                        profit_score      |-> Clamp(s[8].h),
                        estimated_views   |-> s[6].h,
                        active_fb_ads     |-> s[9].h,
                        trend_percent     |-> s[10].h,
                        search_volume     |-> s[11].h,
                        shopify_stores    |-> s[12].h]]

(***************************************************************************)
(* _validate_product on one dict.  The dicts are what the reasoning        *)
(* service may send back: any JSON value in any field.                     *)
(***************************************************************************)
NamePool        == {NameStr("", 0), NameStr("A", 1), NameStr("A", NameCap + 1)}
OverallPool     == {Absent, Null, Num(0), Num(-500), Num(15000),
                    StrInt(80), StrBad, Inf}
TrendPool       == {Num(9999), StrDec(7550)}
CompetitionPool == {Absent, Num(-50), Obj}
ProfitPool      == {Absent, NaN}
CostPool        == {Absent, Num(1000), StrBad}
PricePool       == {Absent, Num(2999), Num(500)}
MarginPool      == {Absent, Num(0), Num(4000)}
ViewsPool       == {Absent, StrDec(150)}
ImagePool       == {NoImage, ImgUrl("//", "cdn/x.jpg", 9)}

ProductDict(name, image, cost, price, margin, overall, trend, comp, profit, views) ==
    [name |-> name, image_url |-> image, source |-> "tiktok",
     category |-> "Kitchen", why_trending |-> "viral", saturation_level |-> "low",
     trend_direction |-> "up",
     source_cost |-> cost, recommended_price |-> price, margin_percent |-> margin,
     overall_score |-> overall, trend_score |-> trend,
     competition_score |-> comp, profit_score |-> profit,
     estimated_views |-> views, active_fb_ads |-> Absent, trend_percent |-> Absent,
     search_volume |-> Absent, shopify_stores |-> Absent]

\* the text fields of a product dict
TextFields == {"source", "category", "why_trending", "saturation_level",
               "trend_direction"}

\* the dict without its text fields
WithoutTexts(d) == [f \in DOMAIN d |-> IF f \in TextFields THEN NoText ELSE d[f]]

ValidateInputs ==
    LET full == {ProductDict(n, i, c, p, m, o, t, cs, ps, v) :
                    n \in NamePool, i \in ImagePool, c \in CostPool,
                    p \in PricePool, m \in MarginPool, o \in OverallPool,
                    t \in TrendPool, cs \in CompetitionPool,
                    ps \in ProfitPool, v \in ViewsPool}
    IN  full \cup {WithoutTexts(d) : d \in full}

Pending == [res |-> "pending", p |-> NoProduct]

ValidateIdle == vin = NoProduct /\ vout = Pending

InitValidate ==
    /\ vin \in ValidateInputs
    /\ vout = Pending

\* one call of _validate_product(vin)
CallValidate ==
    /\ vout.res = "pending"
    /\ vin # NoProduct
    /\ vout' = ValidateProduct(vin)
    /\ UNCHANGED <<vin, notValidate>>


\* C1 (as claimed): every input with a non-empty name yields a product, not
\* None, whose four scores are integers in [0,100].
C1_NonEmptyNameAlwaysProduct ==
    (vout.res # "pending" /\ NameTruthy(vin.name)) =>
        /\ vout.res = "product"
        /\ \A f \in {"overall_score", "trend_score", "competition_score", "profit_score"} :
               vout.p[f] \in 0..100

\* a field value that int() and float() both accept
Coercible(v) == v.k \in {"absent", "null", "num", "strint", "strempty"}
NumericFields ==
    {"source_cost", "recommended_price", "margin_percent", "overall_score",
     "trend_score", "competition_score", "profit_score", "estimated_views",
     "active_fb_ads", "trend_percent", "search_volume", "shopify_stores"}

\* C1 (amended): with a non-empty name, a product is returned whenever every
\* numeric field is absent, null, a finite number or an integer-literal
\* string; and every product returned has its four scores in [0,100].
C1_ScoresClampedWhenProduct ==
    /\ (vout.res # "pending" /\ NameTruthy(vin.name)
            /\ \A f \in NumericFields : Coercible(vin[f]))
          => vout.res = "product"
    /\ vout.res = "product" =>
          \A f \in {"overall_score", "trend_score", "competition_score", "profit_score"} :
              vout.p[f] \in 0..100

\* an out-of-range score was clamped into range
C1_Witness ==
    /\ vout.res = "product"
    /\ vin.overall_score = Num(15000) /\ vout.p.overall_score = 100
    /\ vin.competition_score = Num(-50) /\ vout.p.competition_score = 0

\* the numeric value of an input field, 0 when it holds none
NumericValue(v) == IF v.k \in {"num", "strint", "strdec"} THEN v.h ELSE 0

\* m (hundredths of a percent) is (price - cost) / price * 100 rounded to one
\* decimal: a multiple of 0.1 within 0.05 of the quotient
IsMarginOf(m, cost, price) ==
    /\ m % 10 = 0
    /\ LET d == (m \div 10) * price - (price - cost) * 1000
       IN  2 * (IF d < 0 THEN -d ELSE d) <= price

\* C15: when the input has source_cost > 0, recommended_price > source_cost
\* and margin_percent 0 or absent, the product returned has margin_percent =
\* round((recommended_price - source_cost) / recommended_price * 100, 1).
C15_MarginBackFilled ==
    (vout.res = "product"
        /\ NumericValue(vin.source_cost) > 0
        /\ NumericValue(vin.recommended_price) > NumericValue(vin.source_cost)
        /\ NumericValue(vin.margin_percent) = 0)
      => IsMarginOf(vout.p.margin_percent, NumericValue(vin.source_cost),
                    NumericValue(vin.recommended_price))

\* cost 10.00 and price 29.99 without a margin: 66.7 was filled in
C15_Witness ==
    /\ vout.res = "product"
    /\ vin.source_cost = Num(1000) /\ vin.recommended_price = Num(2999)
    /\ vin.margin_percent = Absent
    /\ vout.p.margin_percent = 6670

\* C16 (as claimed): whenever source_cost and recommended_price are both
\* positive in the input, the margin_percent returned is the one recomputed
\* from them, never the one supplied.
C16_MarginAlwaysRecomputed ==
    (vout.res = "product"
        /\ NumericValue(vin.source_cost) > 0
        /\ NumericValue(vin.recommended_price) > 0)
      => IsMarginOf(vout.p.margin_percent, NumericValue(vin.source_cost),
                    NumericValue(vin.recommended_price))

\* what the input gives for name, cost and price comes back unchanged
NameAndPricesKept ==
    /\ vout.p.name.base = vin.name.base
    /\ vout.p.name.len = Min(vin.name.len, NameCap)
    /\ vout.p.name.len <= NameCap
    /\ vout.p.source_cost = NumericValue(vin.source_cost)
    /\ vout.p.recommended_price = NumericValue(vin.recommended_price)

\* the counts and rates hold the input's value, 0 when it has none
CountsKept ==
    \A f \in {"estimated_views", "active_fb_ads", "trend_percent",
              "search_volume", "shopify_stores"} :
        vin[f].k \in {"absent", "null"} => vout.p[f] = 0

MaxCatalog == 3
StoreNames == {"A", "B", "C"}
SeqsUpTo(S, n) == UNION {[1..m -> S] : m \in 0..n}

\* (mutant) the first entry of the snapshot is skipped
NameSetOfTail(names) == {names[i] : i \in 2..Len(names)}

\* set(old_products)
NameSetOf(names) == {names[i] : i \in 1..Len(names)}

\* {p["name"] for p in new_products}
NamesOfProducts(products) == {products[i].name : i \in 1..Len(products)}

\* (mutant) the operands of the difference are swapped
SetMinusSwapped(a, b) == b \ a

\* a - b on Python sets
SetMinus(a, b) == a \ b

\* list(s): the elements of s, each once, in an order Python does not fix
ListsOf(S) == {l \in [1..Cardinality(S) -> S] : Range(l) = S}

NoChanges ==
    [done |-> FALSE, added_products |-> <<>>, removed_products |-> <<>>,
     added_count |-> 0, removed_count |-> 0, has_changes |-> FALSE]

\* the dicts detect_store_changes may return
DetectStoreChanges(old, new) ==
    LET old_set == NameSetOf(old)
        new_set == NamesOfProducts(new)
        added   == SetMinus(new_set, old_set)
        removed == SetMinus(old_set, new_set)
    IN  {[done |-> TRUE, added_products |-> a, removed_products |-> r,
          added_count |-> Cardinality(added),
          removed_count |-> Cardinality(removed),
          has_changes |-> (Cardinality(added) > 0 \/ Cardinality(removed) > 0)] :
            a \in ListsOf(added), r \in ListsOf(removed)}

DiffIdle == old_products = <<>> /\ new_products = <<>> /\ changes = NoChanges

InitDiff ==
    /\ old_products \in SeqsUpTo(StoreNames, MaxCatalog)
    /\ new_products \in SeqsUpTo([name : StoreNames], MaxCatalog)
    /\ changes = NoChanges

\* one call of detect_store_changes(old_products, new_products)
CallDetect ==
    /\ ~changes.done
    /\ changes' \in DetectStoreChanges(old_products, new_products)
    /\ UNCHANGED <<old_products, new_products, notDiff>>

\* C5: added_products is exactly the names of new that are not in old,
\* removed_products exactly the names of old that are not in new, each name
\* once; the counts are their sizes; has_changes iff one is non-empty; and
\* old {A,B} with new [A,C] gives added [C], removed [B], has_changes.
C5_PureSetDifference ==
    changes.done =>
      /\ \A n \in StoreNames :
            /\ (\E i \in 1..Len(changes.added_products) : changes.added_products[i] = n)
                 <=> /\ \E j \in 1..Len(new_products) : new_products[j].name = n
                     /\ \A j \in 1..Len(old_products) : old_products[j] # n
            /\ (\E i \in 1..Len(changes.removed_products) : changes.removed_products[i] = n)
                 <=> /\ \E j \in 1..Len(old_products) : old_products[j] = n
                     /\ \A j \in 1..Len(new_products) : new_products[j].name # n
      /\ \A i, j \in 1..Len(changes.added_products) :
            i # j => changes.added_products[i] # changes.added_products[j]
      /\ \A i, j \in 1..Len(changes.removed_products) :
            i # j => changes.removed_products[i] # changes.removed_products[j]
      /\ changes.added_count = Len(changes.added_products)
      /\ changes.removed_count = Len(changes.removed_products)
      /\ changes.has_changes <=>
            (changes.added_products # <<>> \/ changes.removed_products # <<>>)
      /\ (old_products = <<"A", "B">> /\ new_products = <<[name |-> "A"], [name |-> "C"]>>)
            => /\ changes.added_products = <<"C">>
               /\ changes.removed_products = <<"B">>
               /\ changes.has_changes

\* the spec's example has run
C5_Witness ==
    /\ changes.done
    /\ old_products = <<"A", "B">>
    /\ new_products = <<[name |-> "A"], [name |-> "C"]>>
    /\ changes.added_products = <<"C">>

\* C6: when old is exactly the set of names of new, nothing is added, nothing
\* is removed and has_changes is False.
C6_IdempotentOnOwnNames ==
    (changes.done /\ {old_products[i] : i \in 1..Len(old_products)}
                       = {new_products[j].name : j \in 1..Len(new_products)})
      => /\ changes.added_count = 0
         /\ changes.removed_count = 0
         /\ ~changes.has_changes

\* a non-empty catalog diffed against its own names, listed in another order
\* and with a duplicate
C6_Witness ==
    /\ changes.done
    /\ old_products = <<"B", "A">>
    /\ new_products = <<[name |-> "A"], [name |-> "B"], [name |-> "A"]>>
    /\ changes.added_count = 0 /\ changes.removed_count = 0

(***************************************************************************)
(* The per-source collectors.  TikTokScanner.scan_trending,                *)
(* AmazonScanner.scan_movers_shakers and AliExpressScanner.scan_trending   *)
(* are chains of strategies; GoogleTrendsScanner.scan_rising_terms builds  *)
(* a pytrends client and accumulates over seed keywords.                   *)
(***************************************************************************)
Sources      == {"tiktok", "amazon", "aliexpress", "google_trends"}
ChainSources == {"tiktok", "amazon", "aliexpress"}
SourceOrder  == <<"tiktok", "amazon", "aliexpress", "google_trends">>

\* the number of strategies a chain tries
ChainLen(c) ==
    CASE c = "tiktok"     -> 4
      [] c = "amazon"     -> 3
      [] c = "aliexpress" -> 3

\* return products[:n]
Cap(c) ==
    CASE c = "tiktok"        -> 12
      [] c = "amazon"        -> 15
      [] c = "aliexpress"    -> 15
      [] c = "google_trends" -> 12

\* l[:n]
Prefix(l, n) == SubSeq(l, 1, Min(n, Len(l)))

\* A raw candidate: its source, its name, the strategy that produced it (as
\* Amazon's source_type records), its place in that strategy's list, and the
\* trend_data values that are read later.
Candidate(source, name, via, rank, price, current_price, orders, growth, views) ==
    [source |-> source, name |-> name, via |-> via, rank |-> rank,
     image_url |-> NoImage,
     price |-> price, current_price |-> current_price, orders_30d |-> orders,
     growth |-> growth, views |-> views]

\* What one scraped item can look like, per source and strategy.  TikTok's two
\* API strategies copy the response's "trend" and "publish_cnt"/"video_views"
\* values into trend_data as they come, whatever JSON they are; its two page
\* scrapers write growth_rate 0.  The other collectors coerce prices and
\* counts to numbers themselves.
ItemShapes(c, k) ==
    CASE c = "tiktok" /\ k <= 2 ->
            {[price |-> Absent, current_price |-> Absent, orders |-> Absent,
              growth |-> g, views |-> Num(470000000)] : g \in {Num(15000), Obj}}
      [] c = "tiktok" /\ k > 2 ->
            {[price |-> Absent, current_price |-> Absent, orders |-> Absent,
              growth |-> Num(0), views |-> Num(0)]}
      [] c = "amazon" ->
            {[price |-> Absent, current_price |-> Num(2999), orders |-> Absent,
              growth |-> Absent, views |-> Absent]}
      [] c = "aliexpress" ->
            {[price |-> Num(599), current_price |-> Absent, orders |-> Num(250000),
              growth |-> Absent, views |-> Absent]}
      [] c = "google_trends" ->
            {[price |-> Absent, current_price |-> Absent, orders |-> Absent,
              growth |-> Num(500000), views |-> Absent]}

SourceName(c) ==
    CASE c = "tiktok"        -> NameStr("Viral Gadget", 12)
      [] c = "amazon"        -> NameStr("Air Fryer", 9)
      [] c = "aliexpress"    -> NameStr("Led Strip", 9)
      [] c = "google_trends" -> NameStr("Usb Hub", 7)

\* the list of n items strategy k of collector c scraped, all of one shape
Scraped(c, k, n, sh) ==
    [i \in 1..n |-> Candidate(c, SourceName(c), k, i, sh.price, sh.current_price,
                              sh.orders, sh.growth, sh.views)]

\* how many items a strategy's list may hold: none, one, or (for the collector
\* called directly) more than the cap
OutputLens(c) == IF focus = c THEN {0, 1, Cap(c) + 1} ELSE {0, 1}

\* What strategy k of chain c may hand back: a list, and whether an exception
\* was caught inside it (the try/except of every _try_* method returns the
\* list built so far).
StrategyOutputs(c, k) ==
    {[out |-> Scraped(c, k, n, sh), threw |-> t] :
        n \in OutputLens(c), sh \in ItemShapes(c, k), t \in BOOLEAN}

\* (mutant) every strategy of the chain is run, whatever the earlier ones found
ShouldAttemptAlways(k, products) == TRUE

\* strategy 1 runs unconditionally, strategy k > 1 under `if not products:`
ShouldAttempt(k, products) == k = 1 \/ products = <<>>

Log(c, entry) ==
    IF focus = c THEN [attempted EXCEPT ![c] = Append(@, entry)] ELSE attempted

\* one `products = await self._try_...(client)` line of a chain, with its guard
ChainStep(c) ==
    /\ c \in ChainSources
    /\ cstatus[c] = "running"
    /\ cstep[c] <= ChainLen(c)
    /\ cstep' = [cstep EXCEPT ![c] = @ + 1]
    /\ IF ShouldAttempt(cstep[c], cproducts[c])
       THEN \E o \in StrategyOutputs(c, cstep[c]) :
               /\ cproducts' = [cproducts EXCEPT ![c] = o.out]
               /\ attempted' = Log(c, [k |-> cstep[c], out |-> o.out, threw |-> o.threw])
               /\ nonEmptySeen' = [nonEmptySeen EXCEPT ![c] = @ \/ o.out # <<>>]
       ELSE UNCHANGED <<cproducts, attempted, nonEmptySeen>>
    /\ UNCHANGED <<focus, cstatus, cresult, notCollector>>

\* return products[:12] (TikTok), products[:15] (Amazon, AliExpress)
ChainReturn(c) ==
    /\ c \in ChainSources
    /\ cstatus[c] = "running"
    /\ cstep[c] = ChainLen(c) + 1
    /\ cstatus' = [cstatus EXCEPT ![c] = "returned"]
    /\ cresult' = [cresult EXCEPT ![c] = Prefix(cproducts[c], Cap(c))]
    /\ UNCHANGED <<focus, cstep, cproducts, attempted, nonEmptySeen, notCollector>>

\* `async with httpx.AsyncClient(timeout=20, follow_redirects=True) as client:`
\* stands before the first strategy and outside every try: an exception
\* raised while the client is built leaves the collector
ChainOpenFails(c) ==
    /\ c \in ChainSources
    /\ cstatus[c] = "running"
    /\ cstep[c] = 1
    /\ cstatus' = [cstatus EXCEPT ![c] = "raised"]
    /\ UNCHANGED <<focus, cstep, cproducts, cresult, attempted, nonEmptySeen, notCollector>>

\* ---- GoogleTrendsScanner.scan_rising_terms ----------------------------
\* the search queries pytrends may report, with len(query)
Queries == {"usb hub", "USB HUB", "led lamp", "tv"}
QueryLen(q) ==
    CASE q = "usb hub"  -> 7
      [] q = "USB HUB"  -> 7
      [] q = "led lamp" -> 8
      [] q = "tv"       -> 2

\* str.title() on these strings
TitleCase(q) ==
    CASE q \in {"usb hub", "USB HUB", "Usb Hub"} -> "Usb Hub"
      [] q \in {"led lamp", "Led Lamp"}          -> "Led Lamp"
      [] q \in {"tv", "Tv"}                      -> "Tv"

\* str.lower() on these strings
LowerCase(q) ==
    CASE q \in {"usb hub", "USB HUB", "Usb Hub"} -> "usb hub"
      [] q \in {"led lamp", "Led Lamp"}          -> "led lamp"
      [] q \in {"tv", "Tv"}                      -> "tv"

\* seed_keywords[:3]
NumSeeds == 3
\* rising_df.head(8), top_df.head(5)
RisingHead == 8
TopHead == 5
\* if query and len(query) > 3
MinQueryLen == 3

\* what related_queries() may hold for one seed keyword
RisingLists == IF focus = "google_trends"
               THEN {<<>>, <<"usb hub">>, <<"usb hub", "tv">>}
               ELSE {<<>>, <<"usb hub">>}
TopLists    == IF focus = "google_trends"
               THEN {<<>>, <<"USB HUB">>, <<"led lamp">>}
               ELSE {<<>>}

GoogleCandidate(q, kw, rank, growth) ==
    Candidate("google_trends", NameStr(TitleCase(q), QueryLen(q)), kw, rank,
              Absent, Absent, Absent, growth, Absent)

\* the loop over rising_df.head(8): every query longer than 3 is appended
RECURSIVE AppendRising(_, _, _)
AppendRising(products, rows, kw) ==
    IF rows = <<>> THEN products
    ELSE LET q == Head(rows)
         IN  AppendRising(
                 IF QueryLen(q) > MinQueryLen
                 THEN Append(products,
                             GoogleCandidate(q, kw, Len(products) + 1, Num(500000)))
                 ELSE products,
                 Tail(rows), kw)

\* the loop over top_df.head(5): a query is appended unless a product of that
\* name, compared in lower case, is already in the list
RECURSIVE AppendTop(_, _, _)
AppendTop(products, rows, kw) ==
    IF rows = <<>> THEN products
    ELSE LET q == Head(rows)
             existing == {LowerCase(products[i].name.base) : i \in 1..Len(products)}
         IN  AppendTop(
                 IF QueryLen(q) > MinQueryLen /\ LowerCase(TitleCase(q)) \notin existing
                 THEN Append(products,
                             GoogleCandidate(q, kw, Len(products) + 1, Num(10000)))
                 ELSE products,
                 Tail(rows), kw)

\* from pytrends.request import TrendReq; pytrends = TrendReq(...), inside
\* try: ... except ImportError.  TrendReq's constructor fetches a cookie over
\* the network, so it can fail with an exception that is no ImportError.
GoogleConstruct ==
    LET c == "google_trends"
    IN  /\ cstatus[c] = "running"
        /\ cstep[c] = 0
        /\ \E outcome \in {"ok", "ImportError", "error"} :
              /\ attempted' = Log(c, [k |-> 0, out |-> <<>>, threw |-> outcome # "ok"])
              /\ CASE outcome = "ok" ->
                        /\ cstep' = [cstep EXCEPT ![c] = 1]
                        /\ UNCHANGED cstatus
                   [] outcome = "ImportError" ->
                        /\ cstep' = [cstep EXCEPT ![c] = NumSeeds + 1]
                        /\ UNCHANGED cstatus
                   [] outcome = "error" ->
                        /\ cstatus' = [cstatus EXCEPT ![c] = "raised"]
                        /\ UNCHANGED cstep
        /\ UNCHANGED <<focus, cproducts, cresult, nonEmptySeen, notCollector>>

\* one pass of `for keyword in seed_keywords[:3]`, with its own try/except
GoogleKeyword ==
    LET c == "google_trends"
    IN  /\ cstatus[c] = "running"
        /\ cstep[c] \in 1..NumSeeds
        /\ cstep' = [cstep EXCEPT ![c] = @ + 1]
        /\ \E threw \in {"no", "early", "mid"}, rising \in RisingLists, top \in TopLists :
              LET afterRising == AppendRising(cproducts[c], Prefix(rising, RisingHead), cstep[c])
                  afterTop    == AppendTop(afterRising, Prefix(top, TopHead), cstep[c])
                  products    == CASE threw = "early" -> cproducts[c]
                                   [] threw = "mid"   -> afterRising
                                   [] threw = "no"    -> afterTop
              IN  /\ cproducts' = [cproducts EXCEPT ![c] = products]
                  /\ attempted' = Log(c, [k |-> cstep[c], out |-> products,
                                          threw |-> threw # "no"])
                  /\ nonEmptySeen' = [nonEmptySeen EXCEPT ![c] = @ \/ products # <<>>]
        /\ UNCHANGED <<focus, cstatus, cresult, notCollector>>

\* return products[:12]
GoogleReturn ==
    LET c == "google_trends"
    IN  /\ cstatus[c] = "running"
        /\ cstep[c] = NumSeeds + 1
        /\ cstatus' = [cstatus EXCEPT ![c] = "returned"]
        /\ cresult' = [cresult EXCEPT ![c] = Prefix(cproducts[c], Cap(c))]
        /\ UNCHANGED <<focus, cstep, cproducts, attempted, nonEmptySeen, notCollector>>

FirstStep(c) == IF c = "google_trends" THEN 0 ELSE 1

CollectorIdle ==
    /\ focus = "none"
    /\ cstatus = [c \in Sources |-> "idle"]
    /\ cstep = [c \in Sources |-> FirstStep(c)]
    /\ cproducts = [c \in Sources |-> <<>>]
    /\ cresult = [c \in Sources |-> <<>>]
    /\ attempted = [c \in Sources |-> <<>>]
    /\ nonEmptySeen = [c \in Sources |-> FALSE]

\* one collector is called on its own, as scan_source does
InitCollector ==
    /\ focus \in Sources
    /\ cstatus = [c \in Sources |-> IF c = focus THEN "running" ELSE "idle"]
    /\ cstep = [c \in Sources |-> FirstStep(c)]
    /\ cproducts = [c \in Sources |-> <<>>]
    /\ cresult = [c \in Sources |-> <<>>]
    /\ attempted = [c \in Sources |-> <<>>]
    /\ nonEmptySeen = [c \in Sources |-> FALSE]

\* C9 (as claimed): no collector ever raises; each ends by returning a list.
C9_CollectorsNeverRaise == \A c \in Sources : cstatus[c] # "raised"

\* C10: in a chain, strategies run in order from the first; one runs only if
\* every earlier one returned an empty list, so none runs after the first
\* non-empty one; and the collector returns the first non-empty output cut to
\* the cap, or the empty list after trying every strategy.
C10_FirstNonEmptyWins ==
    \A c \in ChainSources :
      focus = c =>
        LET log == attempted[c]
        IN  /\ \A i \in 1..Len(log) : log[i].k = i
            /\ \A i \in 1..Len(log) : \A j \in 1..(i - 1) : log[j].out = <<>>
            /\ cstatus[c] = "returned" =>
                 /\ log # <<>>
                 /\ cresult[c] = SubSeq(log[Len(log)].out, 1,
                                        Min(Cap(c), Len(log[Len(log)].out)))
                 /\ Len(cresult[c]) <= Cap(c)
                 /\ cresult[c] = <<>> =>
                      /\ Len(log) = ChainLen(c)
                      /\ \A i \in 1..Len(log) : log[i].out = <<>>
                 /\ \A i \in 1..Len(cresult[c]) :
                      /\ cresult[c][i].via = Len(log)
                      /\ cresult[c][i].rank = i

\* TikTok: two strategies came back empty (one by a caught exception), the
\* third found more than the cap, the fourth was not run
C10_Witness ==
    /\ focus = "tiktok" /\ cstatus["tiktok"] = "returned"
    /\ Len(attempted["tiktok"]) = 3
    /\ attempted["tiktok"][1].threw /\ attempted["tiktok"][1].out = <<>>
    /\ Len(attempted["tiktok"][3].out) = Cap("tiktok") + 1
    /\ Len(cresult["tiktok"]) = Cap("tiktok")

\* C24 (as claimed): the list scan_rising_terms returns never holds two
\* candidates whose names are equal ignoring case.
C24_NoDuplicateNames ==
    cstatus["google_trends"] = "returned" =>
        LET l == cresult["google_trends"]
        IN  \A i, j \in 1..Len(l) :
               i # j => LowerCase(l[i].name.base) # LowerCase(l[j].name.base)

(***************************************************************************)
(* AIProductScanner.run_full_scan = scan_trending_products: the four       *)
(* collectors run under asyncio.gather, their lists are concatenated, and  *)
(* the candidates are enriched by the reasoning service or, when that      *)
(* fails, scored by _make_basic_product.                                   *)
(***************************************************************************)
\* ProductScoutEngine.run_full_scan: results that are lists are concatenated in
\* the order of `sources`; a collector that raised contributes nothing
Yield(c) == IF cstatus[c] = "returned" THEN cresult[c] ELSE <<>>

\* (mutant) the last source's list is left out
AllProductsButLast == Yield(SourceOrder[1]) \o Yield(SourceOrder[2])
                         \o Yield(SourceOrder[3])

AllProducts == Yield(SourceOrder[1]) \o Yield(SourceOrder[2])
                  \o Yield(SourceOrder[3]) \o Yield(SourceOrder[4])

\* basic_products is built from raw_products[:10]
BasicCap == 10

\* trend_data.get(key, trend_data.get(fallback, 0))
NestedGet(v, fallback) ==
    IF v.k # "absent" THEN v ELSE IF fallback.k # "absent" THEN fallback ELSE Num(0)

\* the coercions of _make_basic_product in the order Python evaluates them
BasicSteps(raw) ==
    << ToFloat(GetOr(NestedGet(raw.price, raw.current_price), Num(0))),
       ToInt(GetOr(raw.orders_30d, Num(0))),
       ToInt(GetOr(raw.growth, Num(0))),
       ToInt(GetOr(raw.views, Num(0))) >>

\* the heuristic overall_score from order count and growth
BasicScore(orders, growth) ==
    IF orders > 1000 THEN Min(95, 70 + (orders \div 500))
    ELSE IF growth > 100 THEN Min(90, 60 + (growth \div 50))
    ELSE 50

\* AIProductScanner._make_basic_product; nothing in it catches an exception
MakeBasicProduct(raw) ==
    LET s   == BasicSteps(raw)
        err == FirstError(s)
    IN  IF err # "none" THEN [res |-> "raise", p |-> NoProduct]
        ELSE
          LET price   == s[1].h
              amazon  == raw.source = "amazon"
              \* source_cost and recommended_price before rounding, in tenths
              \* of a hundredth
              cost10  == IF amazon /\ price > 0 THEN 3 * price ELSE 10 * price
              price10 == IF amazon THEN 10 * price
                         ELSE IF price > 0 THEN 30 * price ELSE 0
              overall_score == BasicScore(s[2].h, s[3].h)
          IN  [res |-> "product",
               p |-> [name              |-> Truncate(raw.name, NameCap),
                      image_url         |-> FixProtocolRelative(raw.image_url),
                      source            |-> raw.source,
                      source_cost       |-> RoundHalfEven(cost10, 10),
                      recommended_price |-> RoundHalfEven(price10, 10),
                      margin_percent    |-> IF price10 > cost10
                                            THEN AutoMargin(cost10, price10) ELSE 0,
                      trend_score       |-> Min(100, Max(20, overall_score)),
                      overall_score     |-> overall_score,
                      competition_score |-> 50,
                      profit_score      |-> 50,
                      estimated_views   |-> s[4].h,
                      active_fb_ads     |-> 0,
                      trend_percent     |-> 100 * s[3].h,
                      search_volume     |-> 0,
                      shopify_stores    |-> 0,
                      ai_enriched       |-> FALSE]]

\* ---- _enrich_images ----------------------------------------------------
\* len(prefix) of the URL prefixes in use
PreLen(pre) ==
    CASE pre = ""         -> 0
      [] pre = "//"       -> 2
      [] pre = "data:"    -> 5
      [] pre = "https://" -> 8
      [] pre = "number"   -> 0

MinUrlLen == 10

\* an image_url that is no string but a number other than 0, as a JSON answer
\* may hold: _validate_product passes it on as it is
NumberImage == ImgUrl("number", "5", 1)

\* (mutant) every value of image_url is handled
EnrichRaisesNever(img) == FALSE

\* `"google.com/search" in img` raises TypeError for a number
EnrichRaises(img) == img.pre = "number"

\* (mutant) every product is looked up
NeedsLookupAlways(img) == TRUE

\* (mutant) the length threshold is 100 instead of 10
NeedsLookupBelow100(img) ==
    \/ PreLen(img.pre) + img.n < 100
    \/ img.body = "google.com/search"
    \/ img.pre = "data:"

\* not img or "google.com/search" in img or len(img) < 10 or img.startswith("data:")
NeedsLookup(img) ==
    /\ ~EnrichRaises(img)
    /\ \/ PreLen(img.pre) + img.n = 0
       \/ img.body = "google.com/search"
       \/ PreLen(img.pre) + img.n < MinUrlLen
       \/ img.pre = "data:"

\* what _fetch_product_image may return: "" or the URL of a listing image
FoundImage   == ImgUrl("https://", "ae01.alicdn.com/kf/x.jpg", 24)
LookupPool   == {NoImage, FoundImage}

\* _enrich_one(p), given what the lookup returns for it
EnrichOne(p, real_img) ==
    IF NeedsLookup(p.image_url)
    THEN IF real_img # NoImage THEN [p EXCEPT !.image_url = real_img] ELSE p
    ELSE [p EXCEPT !.image_url = FixProtocolRelative(@)]

\* _enrich_images(products): the products whose _enrich_one did not raise come
\* back, in order
EnrichImages(products, found) ==
    LET results == [i \in 1..Len(products) |->
                       IF EnrichRaises(products[i].image_url)
                       THEN [raised |-> TRUE, p |-> products[i]]
                       ELSE [raised |-> FALSE, p |-> EnrichOne(products[i], found[i])]]
        dicts   == SelectSeq(results, LAMBDA r : ~r.raised)
    IN  [i \in 1..Len(dicts) |-> dicts[i].p]

\* ---- the reasoning service --------------------------------------------
\* a product dict of the response, for a candidate of the given name and source
AIProduct(name, source, image, overall) ==
    [ProductDict(name, image, Num(500), Num(1999), Absent, overall, Num(9000),
                 Absent, Absent, Num(100000000)) EXCEPT !.source = source]

InventedName == NameStr("Invented Widget", 15)

\* the "products" arrays the service may answer with
AIProductLists(raw) ==
    LET invented == AIProduct(InventedName, "tiktok", NoImage, Num(15000))
    IN  {<<>>, <<invented>>} \cup
        IF raw = <<>> THEN {}
        ELSE LET r    == raw[1]
                 good == AIProduct(r.name, r.source, ImgUrl("//", "cdn/x.jpg", 9), Num(8800))
                 bare == AIProduct(r.name, r.source, NoImage, Num(-500))
             IN  { <<good>>, <<bare, good>>, <<invented, good>>,
                   <<AIProduct(r.name, r.source, NoImage, StrBad), good>>,
                   <<good, AIProduct(r.name, r.source, NoImage, Inf)>>,
                   <<AIProduct(NameStr("", 0), r.source, NoImage, Num(8800))>> }

\* What _call_openai_json does: it raises (transport or API failure), it
\* returns {} because json.loads failed, or it returns the parsed object.
AIOutcomes(raw) ==
    {[kind |-> "raise", products |-> <<>>], [kind |-> "badjson", products |-> <<>>]}
        \cup {[kind |-> "json", products |-> l] : l \in AIProductLists(raw)}

\* cleaned["ai_enriched"] = True
MarkEnriched(p) ==
    [f \in DOMAIN p \cup {"ai_enriched"} |-> IF f = "ai_enriched" THEN TRUE ELSE p[f]]

\* ---- the dict run_full_scan returns ------------------------------------
\* raw_products_scraped is -1 and message FALSE when the key is not in the dict
Result(kind, success, products, has_message, scraped, failed) ==
    [kind |-> kind, success |-> success, products |-> products,
     count |-> Len(products), message |-> has_message,
     raw_products_scraped |-> scraped, ai_enrichment_failed |-> failed]

NoResult == Result("none", FALSE, <<>>, FALSE, -1, FALSE)
Raised   == Result("raise", FALSE, <<>>, FALSE, -1, FALSE)

\* the else branch of `if raw_products:`
EmptyResult == Result("return", TRUE, <<>>, TRUE, 0, FALSE)

\* the except branch: raw_products[:10] through _make_basic_product; an
\* exception raised there leaves scan_trending_products
FallbackResult(raw) ==
    LET basics == [i \in 1..Min(BasicCap, Len(raw)) |-> MakeBasicProduct(raw[i])]
    IN  IF \E i \in 1..Len(basics) : basics[i].res = "raise" THEN Raised
        ELSE Result("return", TRUE, [i \in 1..Len(basics) |-> basics[i].p],
                    FALSE, -1, TRUE)

\* products = result.get("products", []) of the object _call_openai_json returned
ResponseProducts(ai) == IF ai.kind = "json" THEN ai.products ELSE <<>>

\* the try branch: validate each product of the response, keep those that are
\* not None, look up images; any exception goes to the except branch
EnrichResults(raw, ai) ==
    IF ai.kind = "raise" THEN {FallbackResult(raw)}
    ELSE
      LET products == ResponseProducts(ai)
          cleaned  == [i \in 1..Len(products) |-> ValidateProduct(products[i])]
      IN  IF \E i \in 1..Len(cleaned) : cleaned[i].res = "raise"
          THEN {FallbackResult(raw)}
          ELSE
            LET kept      == SelectSeq(cleaned, LAMBDA v : v.res = "product")
                validated == [i \in 1..Len(kept) |-> MarkEnriched(kept[i].p)]
            IN  {Result("return", TRUE, EnrichImages(validated, found),
                        FALSE, Len(raw), FALSE) :
                    found \in [1..Len(validated) -> LookupPool]}

\* (mutant) the reasoning service is asked even when nothing was scraped
HasRealDataAlways(raw) == TRUE

\* if raw_products:
HasRealData(raw) == raw # <<>>

\* raw_results = await scout.run_full_scan(): asyncio.gather has every
\* collector's list or exception
Gather ==
    /\ spc = "scrape"
    /\ \A c \in Sources : cstatus[c] \in {"returned", "raised"}
    /\ raw_products' = AllProducts
    /\ source_stats' = [c \in Sources |-> Len(Yield(c))]
    /\ total_products' = Len(AllProducts)
    /\ spc' = "gathered"
    /\ UNCHANGED <<ai_calls, aiKind, sresult, collectorVars, notScan>>

\* nothing was scraped: the early return, without a call to the service
ReturnEmpty ==
    /\ spc = "gathered"
    /\ ~HasRealData(raw_products)
    /\ sresult' = EmptyResult
    /\ spc' = "done"
    /\ UNCHANGED <<raw_products, source_stats, total_products, ai_calls, aiKind,
                   collectorVars, notScan>>

\* candidates were scraped: one request to the service, then the try/except
Enrich ==
    /\ spc = "gathered"
    /\ HasRealData(raw_products)
    /\ \E ai \in AIOutcomes(raw_products) :
          /\ sresult' \in EnrichResults(raw_products, ai)
          /\ ai_calls' = ai_calls + 1
          /\ aiKind' = ai.kind
    /\ spc' = "done"
    /\ UNCHANGED <<raw_products, source_stats, total_products, collectorVars, notScan>>

ScanIdle ==
    /\ spc = "idle" /\ raw_products = <<>>
    /\ source_stats = [c \in Sources |-> 0] /\ total_products = 0
    /\ ai_calls = 0 /\ aiKind = "none" /\ sresult = NoResult

\* run_full_scan is entered: all four collectors are started
InitScan ==
    /\ focus = "all"
    /\ cstatus = [c \in Sources |-> "running"]
    /\ cstep = [c \in Sources |-> FirstStep(c)]
    /\ cproducts = [c \in Sources |-> <<>>]
    /\ cresult = [c \in Sources |-> <<>>]
    /\ attempted = [c \in Sources |-> <<>>]
    /\ nonEmptySeen = [c \in Sources |-> FALSE]
    /\ spc = "scrape" /\ raw_products = <<>>
    /\ source_stats = [c \in Sources |-> 0] /\ total_products = 0
    /\ ai_calls = 0 /\ aiKind = "none" /\ sresult = NoResult

ScoreFields == {"overall_score", "trend_score", "competition_score", "profit_score"}

\* C2: when no strategy of any collector returned a non-empty list, the scan
\* returns success=True, products=[], count=0, the no-data message and
\* raw_products_scraped=0.
C2_AllEmptyGivesNoData ==
    (spc = "done" /\ \A c \in Sources : ~nonEmptySeen[c]) =>
        /\ sresult.kind = "return"
        /\ sresult.success
        /\ sresult.products = <<>>
        /\ sresult.count = 0
        /\ sresult.message
        /\ sresult.raw_products_scraped = 0

\* every chain tried all its strategies, each came back empty, and the scan
\* ended with the no-data result
C2_Witness ==
    /\ spc = "done"
    /\ \A c \in Sources : cstatus[c] = "returned" /\ ~nonEmptySeen[c]
    /\ \A c \in ChainSources : cstep[c] = ChainLen(c) + 1
    /\ sresult.kind = "return" /\ sresult.message /\ sresult.products = <<>>

\* C3 (as claimed): when the request to the reasoning service raises and
\* candidates were scraped, the scan returns success=True with a non-empty
\* list whose products have their four scores in [0,100].
C3_FallbackOnServiceFailure ==
    (spc = "done" /\ aiKind = "raise" /\ raw_products # <<>>) =>
        /\ sresult.kind = "return"
        /\ sresult.success
        /\ sresult.products # <<>>
        /\ \A i \in 1..Len(sresult.products) : \A f \in ScoreFields :
               sresult.products[i][f] \in 0..100

\* C4 (as claimed): when the service's answer is not valid JSON and candidates
\* were scraped, the scan returns the candidates scored by the heuristic
\* scorer, marked ai_enriched=False: not an empty and not a failed result.
C4_FallbackOnUnparsableResponse ==
    (spc = "done" /\ aiKind = "badjson" /\ raw_products # <<>>) =>
        /\ sresult.kind = "return"
        /\ sresult.success
        /\ sresult.products # <<>>
        /\ \A i \in 1..Len(sresult.products) : ~sresult.products[i].ai_enriched

\* C11: whatever subset of the collectors raised, the scrape completes;
\* source_stats has an entry for each source, 0 for one that raised and the
\* length of its list for one that returned; products is the successful
\* collectors' lists concatenated in source order; and total_products is both
\* len(products) and the sum of source_stats.
C11_PartialFailureTolerated ==
    spc \in {"gathered", "done"} =>
        LET yielded(c) == IF cstatus[c] = "raised" THEN <<>> ELSE cresult[c]
        IN  /\ DOMAIN source_stats = Sources
            /\ \A c \in Sources : source_stats[c] = Len(yielded(c))
            /\ raw_products = yielded("tiktok") \o yielded("amazon")
                                 \o yielded("aliexpress") \o yielded("google_trends")
            /\ total_products = Len(raw_products)
            /\ total_products = source_stats["tiktok"] + source_stats["amazon"]
                                   + source_stats["aliexpress"] + source_stats["google_trends"]

\* two collectors raised, the two others each yielded a candidate
C11_Witness ==
    /\ spc = "gathered"
    /\ cstatus["tiktok"] = "raised" /\ cstatus["google_trends"] = "raised"
    /\ Len(cresult["amazon"]) = 1 /\ Len(cresult["aliexpress"]) = 1
    /\ source_stats = [c \in Sources |-> IF c \in {"amazon", "aliexpress"} THEN 1 ELSE 0]
    /\ total_products = 2

\* the name of some raw candidate of this run, cut as _validate_product cuts it
IsScrapedName(n) ==
    \E j \in 1..Len(raw_products) : n = Truncate(raw_products[j].name, NameCap)

\* C18 (as claimed): every product the scan returns has the name of some raw
\* candidate of that run, and the list returned is no longer than the raw list.
C18_OnlyScrapedProductsReturned ==
    (spc = "done" /\ sresult.kind = "return") =>
        /\ \A i \in 1..Len(sresult.products) : IsScrapedName(sresult.products[i].name)
        /\ Len(sresult.products) <= Len(raw_products)

\* C19: one run of run_full_scan sends exactly one request to the reasoning
\* service when raw candidates were scraped and none when nothing was.
C19_OneRequestPerScan ==
    /\ spc # "done" => ai_calls = 0
    /\ spc = "done" => ai_calls = (IF raw_products # <<>> THEN 1 ELSE 0)

\* a scan with candidates ended on the parsed answer of its one request
C19_Witness ==
    /\ spc = "done" /\ raw_products # <<>>
    /\ aiKind = "json" /\ ai_calls = 1
    /\ sresult.kind = "return" /\ sresult.products # <<>>

(***************************************************************************)
(* _enrich_images(products) as the event loop runs it: one task per        *)
(* product, each entering `async with semaphore` before _enrich_one.       *)
(***************************************************************************)
\* semaphore = asyncio.Semaphore(5)
SemaphoreLimit == 5

\* one product more than the semaphore admits
NumImages == SemaphoreLimit + 1

\* the image_url values tried for the first product: none, a plausible https
\* URL, a Google search link, a protocol-relative URL, an https URL of nine
\* characters, a data: URI, a protocol-relative URL of six characters and a
\* number
PlainImage  == ImgUrl("https://", "cdn.shop.com/a.jpg", 18)
SearchImage == ImgUrl("https://", "google.com/search", 24)
FirstImages == {NoImage, PlainImage, SearchImage, ImgUrl("//", "cdn/x.jpg", 9),
                ImgUrl("https://", "x", 1), ImgUrl("data:", "image/png;base64", 30),
                ImgUrl("//", "x.jp", 4), NumberImage}

\* the lists handed to _enrich_images: two products, the first with any of
\* these values and the second without an image; and NumImages products
\* without an image
ImageLists == {<<x, NoImage>> : x \in FirstImages}
                 \cup {[i \in 1..NumImages |-> NoImage]}

\* the tasks inside `async with semaphore`: those whose lookup is in flight
Holding == {i \in 1..Len(istate) : istate[i] = "fetching"}

\* (mutant) the semaphore admits every task
SemaphoreFreeAlways(holding) == TRUE

\* semaphore.acquire() returns while fewer than 5 tasks hold it
SemaphoreFree(holding) == Cardinality(holding) < SemaphoreLimit

\* A task enters the semaphore and runs _enrich_one up to its first await: it
\* issues the lookup, or (no await on that path) fixes a protocol-relative
\* URL, returns and leaves the semaphore.
EnterOne(i) ==
    /\ ipass \in {1, 2}
    /\ i \in 1..Len(istate)
    /\ istate[i] = "waiting"
    /\ SemaphoreFree(Holding)
    /\ IF EnrichRaises(iout[i])
       THEN \* the exception ends the task; gather keeps it as the task's result
            /\ istate' = [istate EXCEPT ![i] = "raised"]
            /\ UNCHANGED <<iout, ilooked>>
       ELSE IF NeedsLookup(iout[i])
       THEN /\ istate' = [istate EXCEPT ![i] = "fetching"]
            /\ ilooked' = [ilooked EXCEPT ![i] = @ + 1]
            /\ UNCHANGED iout
       ELSE /\ istate' = [istate EXCEPT ![i] = "done"]
            /\ iout' = [iout EXCEPT ![i] = FixProtocolRelative(@)]
            /\ UNCHANGED ilooked
    /\ UNCHANGED <<ipass, iproducts, ifirst, notImages>>

\* _fetch_product_image returns: the URL replaces image_url if it is not "",
\* and the task leaves the semaphore
LookupReturns(i) ==
    /\ ipass \in {1, 2}
    /\ i \in 1..Len(istate)
    /\ istate[i] = "fetching"
    /\ \E real_img \in LookupPool :
          iout' = [iout EXCEPT ![i] = IF real_img # NoImage THEN real_img ELSE @]
    /\ istate' = [istate EXCEPT ![i] = "done"]
    /\ UNCHANGED <<ipass, iproducts, ilooked, ifirst, notImages>>

AllDone == \A i \in 1..Len(istate) : istate[i] \in {"done", "raised"}

\* [r for r in results if isinstance(r, dict)], as positions in `products`
ReturnedIndices ==
    SelectSeq([i \in 1..Len(istate) |-> i], LAMBDA i : istate[i] = "done")

\* the image_urls of the list _enrich_images returns
ReturnedImages == [k \in 1..Len(ReturnedIndices) |-> iout[ReturnedIndices[k]]]

\* _enrich_images is called on the list it returned
ApplyAgain ==
    /\ ipass = 1
    /\ AllDone
    /\ ipass' = 2
    /\ ifirst' = ReturnedImages
    /\ iproducts' = ReturnedImages
    /\ iout' = ReturnedImages
    /\ istate' = [i \in 1..Len(ReturnedImages) |-> "waiting"]
    /\ ilooked' = [i \in 1..Len(ReturnedImages) |-> 0]
    /\ UNCHANGED notImages

ImagesIdle ==
    /\ ipass = 0 /\ iproducts = <<>> /\ iout = <<>> /\ istate = <<>>
    /\ ilooked = <<>> /\ ifirst = <<>>

\* _enrich_images(products): gather starts one task per product
InitImages ==
    /\ ipass = 1
    /\ iproducts \in ImageLists
    /\ iout = iproducts
    /\ istate = [i \in 1..Len(iproducts) |-> "waiting"]
    /\ ilooked = [i \in 1..Len(iproducts) |-> 0]
    /\ ifirst = <<>>

\* a URL that starts with https:// and has at least 10 characters
PlausibleHttps(u) == u.pre = "https://" /\ PreLen(u.pre) + u.n >= 10

\* C12 (as claimed): a product whose image_url starts with https:// and has at
\* least 10 characters keeps it, and no lookup is issued for it.
C12_HttpsUrlNeverReplaced ==
    \A i \in 1..Len(iproducts) :
        PlausibleHttps(iproducts[i]) => ilooked[i] = 0 /\ iout[i] = iproducts[i]

\* C12 (amended): a product whose image_url starts with https://, has at least
\* 10 characters and does not contain "google.com/search" keeps it, and no
\* lookup is issued for it.
C12_PlainHttpsUrlKept ==
    \A i \in 1..Len(iproducts) :
        (PlausibleHttps(iproducts[i]) /\ iproducts[i].body # "google.com/search")
            => ilooked[i] = 0 /\ iout[i] = iproducts[i]

\* the call is over: the first product kept its https URL without a lookup,
\* the second was looked up and got an image
C12_Witness ==
    /\ ipass = 1 /\ AllDone
    /\ iproducts[1] = PlainImage /\ iout[1] = PlainImage /\ ilooked[1] = 0
    /\ ilooked[2] = 1 /\ iout[2] = FoundImage

\* C13: at every moment at most 5 lookups are in flight, and every product
\* that needs a lookup eventually gets one.
C13_AtMostFiveLookupsInFlight ==
    /\ [](Cardinality({i \in 1..Len(istate) : istate[i] = "fetching"}) <= 5)
    /\ \A i \in 1..NumImages :
          (i <= Len(iproducts) /\ NeedsLookup(iproducts[i]))
              ~> (i <= Len(ilooked) /\ ilooked[i] >= 1)

\* five lookups are in flight and a sixth product is waiting for the semaphore
C13_Witness ==
    /\ Len(istate) = NumImages
    /\ Cardinality({i \in 1..Len(istate) : istate[i] = "fetching"}) = 5
    /\ \E i \in 1..Len(istate) : istate[i] = "waiting" /\ NeedsLookup(iout[i])

\* C14 (as claimed): _enrich_images applied to its own output returns the
\* image_urls the first application returned.
C14_Idempotent ==
    (ipass = 2 /\ AllDone) => iout = ifirst

\* C14 (amended): applied to its own output, _enrich_images leaves unchanged,
\* and issues no lookup for, every product whose image_url after the first
\* application is non-empty, has at least 10 characters, contains no
\* "google.com/search" and is no data: URI; only a product whose lookup found
\* nothing is looked up again.
C14_IdempotentOnceResolved ==
    ipass = 2 =>
        \A i \in 1..Len(ifirst) :
            LET u        == ifirst[i]
                resolved == /\ PreLen(u.pre) + u.n >= 10
                            /\ u.body # "google.com/search"
                            /\ u.pre # "data:"
            IN  /\ resolved => (iout[i] = u /\ ilooked[i] = 0)
                /\ (AllDone /\ iout[i] # u) => (~resolved /\ ilooked[i] = 1)

\* the second application is over: the protocol-relative URL fixed by the
\* first and the image found by the first were both left alone
C14_Witness ==
    /\ ipass = 2 /\ AllDone
    /\ ifirst = <<ImgUrl("https://", "cdn/x.jpg", 9), FoundImage>>
    /\ iout = ifirst
    /\ ilooked = <<0, 0>>

\* what a product's image_url may have become: what it was, that with a
\* protocol-relative prefix completed, or the URL a lookup found
ImageKeptOrFound(i) ==
    \/ iout[i] = iproducts[i]
    \/ ilooked[i] = 0 /\ iproducts[i].pre = "//" /\ iout[i] = FixProtocolRelative(iproducts[i])
    \/ ilooked[i] = 1 /\ iout[i] \in LookupPool \ {NoImage}

UserIds == <<"u1", "u2">>
Tiers   == {"absent", "free", "sniper", "elite", "agency", "enterprise", "vip"}

\* TIER_SCAN_FREQUENCY.get(tier, 24)
DefaultFrequency == 24
TierScanFrequency(tier) ==
    CASE tier = "free"       -> 24
      [] tier = "sniper"     -> 12
      [] tier = "elite"      -> 6
      [] tier = "agency"     -> 4
      [] tier = "enterprise" -> 2
      [] OTHER               -> DefaultFrequency

\* user.get("subscription_tier", "free")
TierOf(user) == IF user.subscription_tier = "absent" THEN "free"
                ELSE user.subscription_tier

\* last_scan_at as stored: missing/None, an ISO string with a UTC offset (what
\* run_user_scan writes), an ISO string without offset, or a string that is
\* no ISO timestamp
LastNone     == [k |-> "none", t |-> 0]
LastAt(t)    == [k |-> "iso", t |-> t]
LastNaive(t) == [k |-> "naive", t |-> t]
LastBad      == [k |-> "bad", t |-> 0]

\* datetime.fromisoformat(last_scan.replace('Z', '+00:00')), then now - last_scan:
\* the minutes elapsed, or the exception raised
Elapsed(at, last) ==
    CASE last.k = "iso"   -> Ok(at - last.t)
      [] last.k = "bad"   -> Raise("ValueError")
      [] last.k = "naive" -> Raise("TypeError")

MinutesPerHour == 60

\* (mutant) a scan is due only once more than the frequency has elapsed
DueStrict(minutes, frequency_hours) == minutes > MinutesPerHour * frequency_hours

\* hours_since_scan >= frequency_hours
Due(minutes, frequency_hours) == minutes >= MinutesPerHour * frequency_hours

\* lines 83-95: should_scan for one user document, or the exception raised
ShouldScan(at, user) ==
    LET frequency_hours == TierScanFrequency(TierOf(user))
        last_scan       == user.last_scan_at
    IN  IF last_scan.k = "none" THEN [err |-> "none", should_scan |-> TRUE]
        ELSE LET e == Elapsed(at, last_scan)
             IN  [err |-> e.err,
                  should_scan |-> e.err = "none" /\ Due(e.h, frequency_hours)]

\* How run_user_scan may go: everything works, or an exception is raised by
\* the scan, by the scan_history insert, by the users update or by
\* _process_scan_results; its try/except catches each of them.
ScanOutcomes == {"ok", "fail_scan", "fail_insert", "fail_update", "fail_process"}
Inserted(outcome) == outcome \in {"ok", "fail_update", "fail_process"}

\* (mutant) last_scan_at is written whatever happened before
StampedAlways(outcome) == TRUE

Stamped(outcome)  == outcome \in {"ok", "fail_process"}

\* how long one run_user_scan may take, in minutes
ScanMinutes == {1, 3}

NoUser == [subscription_tier |-> "absent", last_scan_at |-> LastNone]

\* the stored timestamps tried for an account of a tier: none, malformed, one
\* without offset, and ones an hour past, exactly at, and a minute short of
\* the tier's frequency
LastPool(tier) ==
    LET f == MinutesPerHour * TierScanFrequency(TierOf([subscription_tier |-> tier]))
    IN  {LastNone, LastBad, LastNaive(-f), LastAt(-f - MinutesPerHour),
         LastAt(-f), LastAt(1 - f)}

UserDocs == UNION {{[subscription_tier |-> tr, last_scan_at |-> l] : l \in LastPool(tr)} :
                      tr \in Tiers}

\* users = await self.db.users.find(...).to_list(1000); now = datetime.now(utc)
StartRun ==
    /\ sstatus = "idle"
    /\ batch' = userdocs
    /\ now' = clock
    /\ idx' = 1
    /\ sstatus' = "loop"
    /\ UNCHANGED <<clock, userdocs, checked, scanned, failures, scan_history, notSched>>

\* one pass of `for user in users`: the due check, and run_user_scan when due
CheckUser ==
    /\ sstatus = "loop"
    /\ idx <= Len(UserIds)
    /\ LET u   == UserIds[idx]
           chk == ShouldScan(now, batch[u])
       IN  IF chk.err # "none"
           THEN \* the exception leaves run_scheduled_scans
                /\ sstatus' = "aborted"
                /\ failures' = failures \cup {idx}
                /\ UNCHANGED <<clock, idx, userdocs, checked, scanned, scan_history>>
           ELSE /\ checked' = Append(checked, [user |-> u, should_scan |-> chk.should_scan])
                /\ idx' = idx + 1
                /\ UNCHANGED sstatus
                /\ IF chk.should_scan
                   THEN \E outcome \in ScanOutcomes, d \in ScanMinutes :
                          /\ scanned' = Append(scanned, u)
                          /\ clock' = clock + d
                          /\ scan_history' = IF Inserted(outcome)
                                             THEN Append(scan_history, u)
                                             ELSE scan_history
                          /\ userdocs' = IF Stamped(outcome)
                                         THEN [userdocs EXCEPT ![u].last_scan_at = LastAt(clock + d)]
                                         ELSE userdocs
                          /\ failures' = IF outcome = "ok" THEN failures
                                         ELSE failures \cup {idx}
                   ELSE UNCHANGED <<clock, userdocs, scanned, failures, scan_history>>
    /\ UNCHANGED <<now, batch, notSched>>

\* the for loop is exhausted
EndRun ==
    /\ sstatus = "loop"
    /\ idx > Len(UserIds)
    /\ sstatus' = "done"
    /\ UNCHANGED <<clock, now, idx, userdocs, batch, checked, scanned, failures,
                   scan_history, notSched>>

\* the hourly trigger is followed over this many hours
MaxHours == 3

\* CronTrigger(minute=0): the next full hour; the run before it has ended
NextHour ==
    /\ sstatus \in {"done", "aborted"}
    /\ clock' = MinutesPerHour * ((clock \div MinutesPerHour) + 1)
    /\ clock' <= MinutesPerHour * MaxHours
    /\ sstatus' = "idle"
    /\ idx' = 0
    /\ UNCHANGED <<now, userdocs, batch, checked, scanned, failures, scan_history,
                   notSched>>

SchedIdle ==
    /\ clock = 0 /\ now = 0 /\ sstatus = "off" /\ idx = 0
    /\ userdocs = [i \in 1..0 |-> NoUser] /\ batch = [i \in 1..0 |-> NoUser]
    /\ checked = <<>> /\ scanned = <<>> /\ failures = {} /\ scan_history = <<>>

\* the scheduler is started with accounts that have an API key
InitSched ==
    /\ clock = 0 /\ now = 0 /\ sstatus = "idle" /\ idx = 0
    /\ userdocs \in [Range(UserIds) -> UserDocs]
    /\ batch = [u \in Range(UserIds) |-> NoUser]
    /\ checked = <<>> /\ scanned = <<>> /\ failures = {} /\ scan_history = <<>>

\* the accounts followed from hour to hour: an enterprise account never
\* scanned, or scanned one or two hours ago, and beside it an account not due
\* soon, another enterprise account, or one with a malformed timestamp
CadenceDocs ==
    {[u \in Range(UserIds) |-> IF u = UserIds[1] THEN a ELSE b] :
        a \in {[subscription_tier |-> "enterprise", last_scan_at |-> l] :
                  l \in {LastNone, LastAt(-120), LastAt(-60)}},
        b \in {[subscription_tier |-> "free", last_scan_at |-> LastAt(-60)],
                [subscription_tier |-> "enterprise", last_scan_at |-> LastNone],
                [subscription_tier |-> "free", last_scan_at |-> LastBad]}}

InitCadence ==
    /\ clock = 0 /\ now = 0 /\ sstatus = "idle" /\ idx = 0
    /\ userdocs \in CadenceDocs
    /\ batch = [u \in Range(UserIds) |-> NoUser]
    /\ checked = <<>> /\ scanned = <<>> /\ failures = {} /\ scan_history = <<>>

\* the tier table as the documentation states it
StatedHours(tier) ==
    CASE tier \in {"free", "absent"} -> 24
      [] tier = "sniper"     -> 12
      [] tier = "elite"      -> 6
      [] tier = "agency"     -> 4
      [] tier = "enterprise" -> 2
      [] OTHER               -> 24

\* C7: an account with a last_scan_at is scanned iff now - last_scan_at is at
\* least its tier's frequency (free 24 h, sniper 12, elite 6, agency 4,
\* enterprise 2, unknown 24): an hour past the frequency it is scanned, a
\* minute short it is not; an account without last_scan_at is always scanned.
C7_DueIffFrequencyElapsed ==
    \A i \in 1..Len(checked) :
        LET e       == checked[i]
            doc     == batch[e.user]
            last    == doc.last_scan_at
            minutes == 60 * StatedHours(doc.subscription_tier)
            ran     == \E j \in 1..Len(scanned) : scanned[j] = e.user
        IN  /\ e.should_scan <=> ran
            /\ last.k = "none" => ran
            /\ last.k = "iso" =>
                 /\ ran <=> (now - last.t >= minutes)
                 /\ (now - last.t = minutes + 60) => ran
                 /\ (now - last.t = minutes - 1) => ~ran

\* an enterprise account exactly at its two hours was scanned, and after it a
\* free account one minute short of 24 hours was checked and not scanned
C7_Witness ==
    /\ sstatus = "done"
    /\ batch["u1"] = [subscription_tier |-> "enterprise", last_scan_at |-> LastAt(-120)]
    /\ batch["u2"] = [subscription_tier |-> "free", last_scan_at |-> LastAt(-1439)]
    /\ scanned = <<"u1">>
    /\ checked = <<[user |-> "u1", should_scan |-> TRUE],
                   [user |-> "u2", should_scan |-> FALSE]>>

Handled == sstatus = "loop" /\ idx' = idx + 1

\* run_user_scan was called for account u in this step
ScanTriggered(u) == scanned' = Append(scanned, u)

C27_StampOnlyAfterInsert ==
    [][\A u \in Range(UserIds) :
         /\ userdocs'[u] # userdocs[u] =>
               ScanTriggered(u) /\ scan_history' = Append(scan_history, u)
         /\ (ScanTriggered(u) /\ scan_history' = scan_history) =>
               /\ userdocs'[u] = userdocs[u]
               /\ ShouldScan(MinutesPerHour * ((clock' \div MinutesPerHour) + 1),
                             userdocs'[u]).should_scan]_vars

\* an enterprise account never scanned before: its first scheduled scan left
\* no scan record and no last_scan_at, and the run an hour later scanned it
\* again, this time recording both
C27_Witness ==
    /\ sstatus = "done" /\ now = 60
    /\ scanned = <<"u1", "u1">> /\ scan_history = <<"u1">>
    /\ userdocs["u1"].last_scan_at.k = "iso"
    /\ userdocs["u1"].last_scan_at.t > 60

(***************************************************************************)
(* The cron jobs ScanScheduler.start registers: archive_daily_products at  *)
(* 06:55 and send_daily_reports at 07:00, both in Eastern time, over       *)
(* db.daily_products.  A scan_date is a UTC calendar day, counted like the *)
(* Eastern days: UTC day d starts in the evening of Eastern day d - 1.     *)
(***************************************************************************)
MaxDays == 2
MaxRows == 3
HoursPerDay == 24
MinutesPerDay == HoursPerDay * MinutesPerHour

\* CronTrigger(hour=6, minute=55) and CronTrigger(hour=7, minute=0)
ArchiveMinute == 6 * MinutesPerHour + 55
ReportMinute  == 7 * MinutesPerHour

\* EASTERN_TZ is 4 (daylight time) or 5 hours behind UTC
EasternOffsets == {4, 5}

\* the instants of a day the model stops at: midnight, 06:00, the two daily
\* triggers, a moment between them, and UTC midnight under either offset
\* (all but two of them full hours, at which the hourly trigger fires)
Instants ==
    {0, 6 * MinutesPerHour, ArchiveMinute, ArchiveMinute + 2, ReportMinute}
        \cup {(HoursPerDay - o) * MinutesPerHour : o \in EasternOffsets}

\* datetime.now(timezone.utc).strftime("%Y-%m-%d")
UtcDate(day, minute, offset) ==
    IF minute + offset * MinutesPerHour >= MinutesPerDay THEN day + 1 ELSE day

\* the jobs whose trigger fires at the given minute of a day
Jobs(minute) ==
    (IF minute = ArchiveMinute THEN {"archive_products"} ELSE {})
        \cup (IF minute = ReportMinute THEN {"daily_telegram_report"} ELSE {})
        \cup (IF minute % MinutesPerHour = 0 THEN {"hourly_scan_check"} ELSE {})

NoDate == -1
NotStarted == [day |-> NoDate, minute |-> NoDate]

\* self._running
Running == started # NotStarted

\* the document _process_scan_results inserts (its other fields play no part)
Row(scan_date) == [scan_date |-> scan_date, is_active |-> TRUE, archived_at |-> NoDate]

\* (mutant) the filter has no scan_date: every active row is archived
ArchivedAllActive(rows, yesterday, today) ==
    [i \in DOMAIN rows |->
        IF rows[i].is_active
        THEN [rows[i] EXCEPT !.is_active = FALSE, !.archived_at = today]
        ELSE rows[i]]

\* update_many({"scan_date": yesterday, "is_active": True},
\*             {"$set": {"is_active": False, "archived_at": now}})
Archived(rows, yesterday, today) ==
    [i \in DOMAIN rows |->
        IF rows[i].scan_date = yesterday /\ rows[i].is_active
        THEN [rows[i] EXCEPT !.is_active = FALSE, !.archived_at = today]
        ELSE rows[i]]

\* ScanScheduler.start(): the jobs are registered; a trigger whose time has
\* passed today fires next tomorrow
StartCron ==
    /\ ~Running
    /\ started' = [day |-> eday, minute |-> eminute]
    /\ UNCHANGED <<eday, eminute, utc_offset, due, scan_job, daily_products,
                   inserted, archivedOn, reportedOn, notCron>>

\* _process_scan_results stores a product of a scan made now
InsertProduct ==
    /\ Len(daily_products) < MaxRows
    /\ daily_products' = Append(daily_products, Row(UtcDate(eday, eminute, utc_offset)))
    /\ inserted' = inserted + 1
    /\ UNCHANGED <<eday, eminute, utc_offset, started, due, scan_job, archivedOn,
                   reportedOn, notCron>>

\* archive_daily_products, fired by its trigger
ArchiveDailyProducts ==
    /\ "archive_products" \in due
    /\ LET today == UtcDate(eday, eminute, utc_offset)
       IN  daily_products' = Archived(daily_products, today - 1, today)
    /\ archivedOn' = archivedOn \cup {eday}
    /\ due' = due \ {"archive_products"}
    /\ UNCHANGED <<eday, eminute, utc_offset, started, scan_job, inserted, reportedOn,
                   notCron>>

\* send_daily_reports, fired by its trigger
SendDailyReports ==
    /\ "daily_telegram_report" \in due
    /\ reportedOn' = reportedOn \cup {eday}
    /\ due' = due \ {"daily_telegram_report"}
    /\ UNCHANGED <<eday, eminute, utc_offset, started, scan_job, daily_products,
                   inserted, archivedOn, notCron>>

\* run_scheduled_scans, fired by its trigger: it reads the accounts and enters
\* its loop, awaiting one run_user_scan after the other
RunScheduledScans ==
    /\ "hourly_scan_check" \in due
    /\ scan_job = "idle"
    /\ scan_job' = "running"
    /\ due' = due \ {"hourly_scan_check"}
    /\ UNCHANGED <<eday, eminute, utc_offset, started, daily_products, inserted,
                   archivedOn, reportedOn, notCron>>

\* the loop of run_scheduled_scans is exhausted (or an exception left it)
FinishScheduledScans ==
    /\ scan_job = "running"
    /\ scan_job' = "idle"
    /\ UNCHANGED <<eday, eminute, utc_offset, started, due, daily_products, inserted,
                   archivedOn, reportedOn, notCron>>

\* the jobs fired at an instant: the hourly job is not started again while
\* its previous run has not ended (one instance per job)
Fired(minute, job) ==
    IF job = "running" THEN Jobs(minute) \ {"hourly_scan_check"} ELSE Jobs(minute)

\* the instant after the given one, 0 (of the next day) after the last
NextInstant(minute) ==
    IF \E t \in Instants : t > minute
    THEN CHOOSE t \in Instants : t > minute /\ \A u \in Instants : u > minute => t <= u
    ELSE 0

\* time passes to the next instant; a running scheduler fires the triggers of
\* that instant.  A job fired has started before the next instant, and the two
\* daily jobs have ended; the loop over the accounts takes as long as it takes.
AdvanceClock ==
    /\ due = {}
    /\ eminute' = NextInstant(eminute)
    /\ eday' = IF eminute' = 0 THEN eday + 1 ELSE eday
    /\ eday' <= MaxDays
    /\ due' = IF Running THEN Fired(eminute', scan_job) ELSE {}
    /\ UNCHANGED <<utc_offset, started, scan_job, daily_products, inserted,
                   archivedOn, reportedOn, notCron>>

CronIdle ==
    /\ eday = 0 /\ eminute = 0 /\ utc_offset = 5 /\ started = NotStarted
    /\ due = {} /\ scan_job = "idle" /\ daily_products = <<>> /\ inserted = 0
    /\ archivedOn = {} /\ reportedOn = {}

\* midnight of day 0: the process is up, start() has not run yet
InitCron ==
    /\ eday = 0 /\ eminute = 0 /\ utc_offset \in EasternOffsets
    /\ started = NotStarted
    /\ due = {} /\ scan_job = "idle" /\ daily_products = <<>> /\ inserted = 0
    /\ archivedOn = {} /\ reportedOn = {}

\* what archive_daily_products has done to the rows: none is gone, a row is
\* inactive only through the run of the UTC day after its scan_date, and after
\* the run of a day no row of the day before is active
ArchiveEffect ==
    /\ Len(daily_products) = inserted
    /\ \A i \in 1..Len(daily_products) :
          LET r == daily_products[i]
          IN  /\ r.is_active => r.archived_at = NoDate
              /\ ~r.is_active => r.archived_at = r.scan_date + 1
    /\ \A d \in archivedOn : \A i \in 1..Len(daily_products) :
          daily_products[i].scan_date = UtcDate(d, ArchiveMinute, utc_offset) - 1
              => ~daily_products[i].is_active

\* no report has run on a day before the day's rollover
NoReportBeforeRollover ==
    (eday \in reportedOn /\ eday \in archivedOn) => eminute >= ReportMinute

\* C20 (as claimed): archive_daily_products marks inactive every row whose
\* scan_date is yesterday and is_active is true, deletes none and changes no
\* row of another scan_date; on every day it runs before that day's report.
C20_RolloverBeforeEveryReport ==
    /\ ArchiveEffect
    /\ NoReportBeforeRollover
    /\ \A d \in reportedOn : d \in archivedOn

\* start() had run before 06:55 of day d
StartedBeforeArchive(d) ==
    \/ started.day < d
    \/ started.day = d /\ started.minute < ArchiveMinute

\* C20 (amended): archive_daily_products marks inactive every row whose
\* scan_date is yesterday and is_active is true, deletes none and changes no
\* row of another scan_date; on every day on which the scheduler was started
\* before 06:55 it runs before that day's report.
C20_RolloverBeforeReportOnceStarted ==
    /\ ArchiveEffect
    /\ NoReportBeforeRollover
    /\ \A d \in reportedOn : StartedBeforeArchive(d) => d \in archivedOn

\* C21 (as claimed): the hourly due-check job, the account scans it makes
\* included, and the daily rollover job are never in progress at the same
\* time.
C21_JobsNeverOverlap ==
    ~(scan_job = "running" /\ "archive_products" \in due)

\* the rollover of day 1 archived a row of day 0 and left a row of day 1
\* active, and the day's report has run after it
C20_Witness ==
    /\ 1 \in archivedOn /\ 1 \in reportedOn
    /\ \E i \in 1..Len(daily_products) :
          daily_products[i] = [scan_date |-> 0, is_active |-> FALSE, archived_at |-> 1]
    /\ \E i \in 1..Len(daily_products) :
          daily_products[i].scan_date = 1 /\ daily_products[i].is_active

(***************************************************************************)
(* The two readers of db.daily_products that hand rows to one account:     *)
(* _send_user_report (the daily report) and GET /products/today.           *)
(***************************************************************************)
Accounts == {"A", "B"}

\* today = datetime.now(timezone.utc).strftime("%Y-%m-%d"), as a day number
Today == 1

DailyRow(user_id, scan_date, is_active, overall_score) ==
    [user_id |-> user_id, scan_date |-> scan_date, is_active |-> is_active,
     overall_score |-> overall_score]

\* find(filter): the rows of the collection that satisfy it, in stored order
Find(rows, Matches(_)) == SelectSeq(rows, Matches)

\* the list with row r put before the first row of a lower score
RECURSIVE InsertByScore(_, _)
InsertByScore(r, sorted) ==
    IF sorted = <<>> THEN <<r>>
    ELSE IF Head(sorted).overall_score < r.overall_score THEN <<r>> \o sorted
    ELSE <<Head(sorted)>> \o InsertByScore(r, Tail(sorted))

\* .sort("overall_score", -1)
RECURSIVE SortByScore(_)
SortByScore(rows) ==
    IF rows = <<>> THEN <<>>
    ELSE InsertByScore(rows[Len(rows)], SortByScore(SubSeq(rows, 1, Len(rows) - 1)))

\* .limit(n).to_list(n)
Limit(rows, n) == SubSeq(rows, 1, Min(n, Len(rows)))

ReportLimit == 5
TodayLimit == 100

\* {"scan_date": today, "is_active": True}
TodayActive(r) == r.scan_date = Today /\ r.is_active

\* the rows db.products (the seed catalog, owned by no account) would give
NoRows == <<>>

Shown(op, src, rows) == [op |-> op, src |-> src, rows |-> rows]
NothingShown == Shown("none", "none", NoRows)

\* _send_user_report: the rows of top_products
ReportRows(rows, user) ==
    LET products == Limit(SortByScore(Find(rows, TodayActive)), ReportLimit)
    IN  IF products # <<>> THEN Shown("report", "any", products)
        ELSE Shown("report", "seed", NoRows)

\* get_today_products: the caller's rows of today, else anybody's, else the seed
TodayRows(rows, user) ==
    LET own == Limit(SortByScore(Find(rows, LAMBDA r : TodayActive(r) /\ r.user_id = user)),
                     TodayLimit)
        any == Limit(SortByScore(Find(rows, TodayActive)), TodayLimit)
    IN  IF own # <<>> THEN Shown("today", "own", own)
        ELSE IF any # <<>> THEN Shown("today", "any", any)
        ELSE Shown("today", "seed", NoRows)

\* the rows a collection may hold
RowPool ==
    {DailyRow(u, d, a, sc) : u \in Accounts, d \in {Today - 1, Today},
                             a \in BOOLEAN, sc \in {40, 90}}

\* the collections tried: every one of at most two rows, and one of six rows
\* of today, more than a report takes
Collections ==
    {<<>>} \cup {<<r>> : r \in RowPool} \cup {<<r, q>> : r \in RowPool, q \in RowPool}
        \cup {[i \in 1..(ReportLimit + 1) |->
                 DailyRow(IF i % 2 = 0 THEN "A" ELSE "B", Today, TRUE, 10 * i)]}

SendUserReport ==
    /\ shown = NothingShown
    /\ shown' = ReportRows(dp, caller)
    /\ UNCHANGED <<dp, caller, notRead>>

GetTodayProducts ==
    /\ shown = NothingShown
    /\ shown' = TodayRows(dp, caller)
    /\ UNCHANGED <<dp, caller, notRead>>

ReadIdle == dp = <<>> /\ caller = "A" /\ shown = NothingShown

InitRead ==
    /\ dp \in Collections
    /\ caller \in Accounts
    /\ shown = NothingShown

\* C22 (as claimed): every daily_products row put in the report for an account
\* by _send_user_report, or returned to it by get_today_products, has the
\* account's user_id, whatever the collection holds.
C22_NoCrossAccountSharing ==
    \A i \in 1..Len(shown.rows) : shown.rows[i].user_id = caller

(***************************************************************************)
(* scrape_shopify_store: the loop over the pages of /products.json.  The   *)
(* items of a page are counted, not listed.                                *)
(***************************************************************************)
\* while page <= 10
MaxPages == 10
\* ...products.json?page={page}&limit=250
PageLimit == 250
\* if len(products) < 30: break
ShortPage == 30
\* "# Max 10 pages (300 products)"
StatedItemCap == 300

\* what a request for a page may bring: a status other than 200, an exception
\* (transport, or a body that is no JSON), or a page of n products
PageOutcomes ==
    {[kind |-> "status", n |-> 0], [kind |-> "raise", n |-> 0]}
        \cup {[kind |-> "json", n |-> n] : n \in {0, ShortPage - 1, ShortPage, PageLimit}}

\* the body of the while loop leaves the loop with break
Breaks(o) == o.kind # "json" \/ o.n = 0 \/ o.n < ShortPage

\* while page <= 10
LoopGoesOn(p) == p <= MaxPages

\* one pass of the while loop: the request for `page` and what follows it, up
\* to the next test of the loop condition
FetchPage ==
    /\ pstatus = "loop"
    /\ \E o \in PageOutcomes :
          /\ requests' = requests + 1
          /\ fetched' = IF o.kind = "json" THEN fetched + o.n ELSE fetched
          /\ page' = IF o.kind = "json" /\ o.n > 0 THEN page + 1 ELSE page
          /\ pstatus' = IF Breaks(o) \/ ~LoopGoesOn(page') THEN "fetched" ELSE "loop"
    /\ UNCHANGED <<total_items, notPage>>

\* the products are processed and the dict is returned
ReturnStore ==
    /\ pstatus = "fetched"
    /\ total_items' = fetched
    /\ pstatus' = "returned"
    /\ UNCHANGED <<page, fetched, requests, notPage>>

PageIdle ==
    /\ page = 0 /\ fetched = 0 /\ requests = 0 /\ pstatus = "idle" /\ total_items = 0

\* all_products = []; page = 1
InitPage ==
    /\ page = 1 /\ fetched = 0 /\ requests = 0 /\ pstatus = "loop" /\ total_items = 0

\* C23 (as claimed): scrape_shopify_store requests at most 10 catalog pages
\* and returns at most 300 items.
C23_AtMostTenPagesAnd300Items ==
    /\ requests <= MaxPages
    /\ pstatus = "returned" => total_items <= StatedItemCap

(***************************************************************************)
(* POST /competitors/{id}/scan, called again and again for one store.      *)
(***************************************************************************)
MaxPulls == 3

\* store_data of a pull: ok is FALSE when the catalog could not be read (a
\* status other than 200 or an exception on the first page), and then
\* store_data["products"] is []
Pull(ok, products) == [ok |-> ok, products |-> products]
NoPull == Pull(TRUE, <<>>)

\* the catalogs a store may show
Catalogs == SeqsUpTo([name : StoreNames], 2)

PullResults == {Pull(TRUE, c) : c \in Catalogs} \cup {Pull(FALSE, <<>>)}

\* [p["name"] for p in store_data["products"]]
NameList(products) == [i \in 1..Len(products) |-> products[i].name]

\* "$set": {"new_products_count": changes["added_count"]}
CountAfter(count, added_count) == added_count

\* scan_competitor for a store the caller owns
ScanCompetitor ==
    /\ pulls < MaxPulls
    /\ \E store_data \in PullResults :
        \E c \in DetectStoreChanges(products_snapshot, store_data.products) :
          /\ last_pull' = store_data
          /\ last_changes' = [added |-> Range(c.added_products),
                              removed |-> Range(c.removed_products),
                              added_count |-> c.added_count,
                              removed_count |-> c.removed_count]
          /\ prev_snapshot' = products_snapshot
          /\ products_snapshot' = NameList(store_data.products)
          /\ new_products_count' = CountAfter(new_products_count, c.added_count)
          /\ added_sum' = added_sum + c.added_count
          /\ alerts' = IF c.added_count > 0
                       THEN Append(alerts, Range(c.added_products)) ELSE alerts
    /\ pulls' = pulls + 1
    /\ UNCHANGED notStore

NoStoreChanges == [added |-> {}, removed |-> {}, added_count |-> 0, removed_count |-> 0]

StoreIdle ==
    /\ products_snapshot = <<>> /\ new_products_count = 0 /\ pulls = 0
    /\ added_sum = 0 /\ prev_snapshot = <<>> /\ last_pull = NoPull
    /\ last_changes = NoStoreChanges /\ alerts = <<>>

\* add_competitor stored the store with the names of its first scrape
InitStore ==
    /\ products_snapshot \in {NameList(c) : c \in Catalogs}
    /\ new_products_count = 0 /\ pulls = 0
    /\ added_sum = 0 /\ prev_snapshot = <<>> /\ last_pull = NoPull
    /\ last_changes = NoStoreChanges /\ alerts = <<>>

\* C25 (as claimed): after any sequence of pulls of one store the stored
\* new_products_count is the sum of added_count over those pulls, and
\* products_snapshot is the name list of the latest pull.
C25_CounterIsCumulative ==
    /\ new_products_count = added_sum
    /\ pulls > 0 => products_snapshot = NameList(last_pull.products)

\* C28 (as claimed): a pull that could not read the catalog leaves
\* products_snapshot as it was, and reports no known product as removed.
C28_FailedPullKeepsSnapshot ==
    (pulls > 0 /\ ~last_pull.ok) =>
        /\ products_snapshot = prev_snapshot
        /\ last_changes.removed_count = 0

(***************************************************************************)
(* ScanScheduler._process_scan_results: the rows a scheduled scan writes   *)
(* to db.daily_products.  Money is in cents.                               *)
(***************************************************************************)
\* trend_data of a product: the dict of scraped figures, or {}
NoTrend   == [k |-> "empty", price |-> 0, views |-> 0, orders_30d |-> 0,
              growth_percent |-> 0]
SomeTrend == [k |-> "data", price |-> 2000, views |-> 2000000, orders_30d |-> 1500,
              growth_percent |-> 120]

\* the products run_full_scan may return, as _validate_product built them
EnrichedPool ==
    {[name |-> n, overall_score |-> o, source_cost |-> 500,
      recommended_price |-> 2000, margin_percent |-> 75, trend_data |-> t] :
        n \in {"Mug", "Lamp"}, o \in {30, 90}, t \in {NoTrend, SomeTrend}}

\* what ProductScoutEngine().run_full_scan() gives: scraped products with
\* their trend_data, without enrichment
MockProducts ==
    <<[name |-> "Scout Bottle", overall_score |-> 0, source_cost |-> 0,
       recommended_price |-> 0, margin_percent |-> 0, trend_data |-> SomeTrend]>>

\* results of run_full_scan: a failure, or a success with zero to two products
ScanResults ==
    {[success |-> FALSE, products |-> <<>>]} \cup
    {[success |-> TRUE, products |-> ps] : ps \in SeqsUpTo(EnrichedPool, 2)}

BaseScore    == 50
Variance     == -5..10
DefaultPrice == 1000
HardMargin   == 65
TopCount     == 5

\* trend_data.get(key, 0)
TrendValue(t, key) == IF t.k = "empty" THEN 0 ELSE t[key]

\* _calculate_product_score with random.randint(-5, 10) giving variance
CalculateProductScore(product, variance) ==
    LET trend_data == product.trend_data
        views      == TrendValue(trend_data, "views")
        orders     == TrendValue(trend_data, "orders_30d")
        growth     == TrendValue(trend_data, "growth_percent")
        by_views   == IF views > 10000000 THEN 20 ELSE IF views > 1000000 THEN 10 ELSE 0
        by_orders  == IF orders > 10000 THEN 15 ELSE IF orders > 1000 THEN 8 ELSE 0
        by_growth  == IF growth > 100 THEN 15 ELSE IF growth > 50 THEN 8 ELSE 0
    IN  Clamp(BaseScore + by_views + by_orders + by_growth + variance)

\* product.get("trend_data", {}).get("price", 10.00)
TrendPrice(product) ==
    IF product.trend_data.k = "empty" THEN DefaultPrice ELSE product.trend_data.price

\* price * 3.5
Markup(price) == (price * 35) \div 10

\* product_doc of lines 170-183
ProductDoc(product) ==
    [name              |-> product.name,
     overall_score     |-> product.overall_score,
     source_cost       |-> TrendPrice(product),
     recommended_price |-> Markup(TrendPrice(product)),
     margin_percent    |-> HardMargin]

\* lines 151-158: the products of the results, or those of the fallback scan
AllProductsOf(results) ==
    IF results.success /\ results.products # <<>> THEN results.products
    ELSE MockProducts

ProcessScanResults ==
    /\ ~processed
    /\ LET all_products == AllProductsOf(scan_out)
       IN  \E variance \in [1..Len(all_products) -> Variance] :
             LET scored_products ==
                     [i \in 1..Len(all_products) |->
                        [all_products[i] EXCEPT
                           !.overall_score =
                               CalculateProductScore(all_products[i], variance[i])]]
                 top_products == Limit(SortByScore(scored_products), TopCount)
             IN  product_docs' = [i \in 1..Len(top_products) |->
                                    ProductDoc(top_products[i])]
    /\ processed' = TRUE
    /\ UNCHANGED <<scan_out, notProcess>>

ProcessIdle ==
    /\ scan_out = [success |-> FALSE, products |-> <<>>]
    /\ product_docs = <<>> /\ processed = FALSE

\* run_user_scan has the results of run_full_scan in hand
InitProcess ==
    /\ scan_out \in ScanResults
    /\ product_docs = <<>> /\ processed = FALSE

\* (price - cost) / price * 100, rounded to a whole percent, matches margin
MarginConsistent(doc) ==
    /\ doc.recommended_price > 0
    /\ LET exact == ((doc.recommended_price - doc.source_cost) * 100)
       IN  /\ doc.margin_percent * doc.recommended_price <= exact + doc.recommended_price \div 2
           /\ doc.margin_percent * doc.recommended_price >= exact - doc.recommended_price \div 2

\* C30 (as claimed): every row _process_scan_results wrote is the row of a
\* product run_full_scan returned and carries that product's overall_score,
\* source_cost, recommended_price and margin_percent, the margin being the
\* one its stored cost and price give.
C30_RowsCarryEnrichedValues ==
    processed =>
        \A i \in 1..Len(product_docs) :
            /\ \E j \in 1..Len(scan_out.products) :
                 LET p == scan_out.products[j]
                 IN  /\ product_docs[i].name = p.name
                     /\ product_docs[i].overall_score = p.overall_score
                     /\ product_docs[i].source_cost = p.source_cost
                     /\ product_docs[i].recommended_price = p.recommended_price
                     /\ product_docs[i].margin_percent = p.margin_percent
            /\ MarginConsistent(product_docs[i])

(***************************************************************************)
(* The specifications                                                      *)
(***************************************************************************)
ValidateInit ==
    /\ InitValidate
    /\ DiffIdle /\ CollectorIdle /\ ScanIdle /\ SchedIdle /\ ImagesIdle
    /\ CronIdle /\ ReadIdle
    /\ PageIdle
    /\ StoreIdle
    /\ ProcessIdle
ValidateNext == CallValidate
SpecValidate == ValidateInit /\ [][ValidateNext]_vars

DiffInit ==
    /\ InitDiff
    /\ ValidateIdle /\ CollectorIdle /\ ScanIdle /\ SchedIdle /\ ImagesIdle
    /\ CronIdle /\ ReadIdle
    /\ PageIdle
    /\ StoreIdle
    /\ ProcessIdle
DiffNext == CallDetect
SpecDiff == DiffInit /\ [][DiffNext]_vars

CollectorInit ==
    /\ InitCollector
    /\ ValidateIdle /\ DiffIdle /\ ScanIdle /\ SchedIdle /\ ImagesIdle
    /\ CronIdle /\ ReadIdle
    /\ PageIdle
    /\ StoreIdle
    /\ ProcessIdle
CollectorNext ==
    \/ \E c \in ChainSources : ChainStep(c)
    \/ \E c \in ChainSources : ChainReturn(c)
    \/ \E c \in ChainSources : ChainOpenFails(c)
    \/ GoogleConstruct
    \/ GoogleKeyword
    \/ GoogleReturn
SpecCollector == CollectorInit /\ [][CollectorNext]_vars

ScanInit ==
    /\ InitScan
    /\ ValidateIdle /\ DiffIdle /\ SchedIdle /\ ImagesIdle /\ CronIdle
    /\ ReadIdle
    /\ PageIdle
    /\ StoreIdle
    /\ ProcessIdle
ScanNext ==
    \/ \E c \in ChainSources : ChainStep(c)
    \/ \E c \in ChainSources : ChainReturn(c)
    \/ \E c \in ChainSources : ChainOpenFails(c)
    \/ GoogleConstruct
    \/ GoogleKeyword
    \/ GoogleReturn
    \/ Gather
    \/ ReturnEmpty
    \/ Enrich
SpecScan == ScanInit /\ [][ScanNext]_vars

SchedInit ==
    /\ InitSched
    /\ ValidateIdle /\ DiffIdle /\ CollectorIdle /\ ScanIdle /\ ImagesIdle
    /\ CronIdle /\ ReadIdle
    /\ PageIdle
    /\ StoreIdle
    /\ ProcessIdle
SchedNext ==
    \/ StartRun
    \/ CheckUser
    \/ EndRun
SpecSched == SchedInit /\ [][SchedNext]_vars

ImagesInit ==
    /\ InitImages
    /\ ValidateIdle /\ DiffIdle /\ CollectorIdle /\ ScanIdle /\ SchedIdle
    /\ CronIdle /\ ReadIdle
    /\ PageIdle
    /\ StoreIdle
    /\ ProcessIdle
ImagesNext ==
    \/ \E i \in 1..NumImages : EnterOne(i)
    \/ \E i \in 1..NumImages : LookupReturns(i)
    \/ ApplyAgain
SpecImages == ImagesInit /\ [][ImagesNext]_vars

CronInit ==
    /\ InitCron
    /\ ValidateIdle /\ DiffIdle /\ CollectorIdle /\ ScanIdle /\ SchedIdle
    /\ ImagesIdle /\ ReadIdle
    /\ PageIdle
    /\ StoreIdle
    /\ ProcessIdle
CronNext ==
    \/ StartCron
    \/ InsertProduct
    \/ ArchiveDailyProducts
    \/ SendDailyReports
    \/ RunScheduledScans
    \/ FinishScheduledScans
    \/ AdvanceClock
SpecCron == CronInit /\ [][CronNext]_vars

ReadInit ==
    /\ InitRead
    /\ ValidateIdle /\ DiffIdle /\ CollectorIdle /\ ScanIdle /\ SchedIdle
    /\ ImagesIdle /\ CronIdle
    /\ PageIdle
    /\ StoreIdle
    /\ ProcessIdle
ReadNext ==
    \/ SendUserReport
    \/ GetTodayProducts
SpecRead == ReadInit /\ [][ReadNext]_vars

PageInit ==
    /\ InitPage
    /\ ValidateIdle /\ DiffIdle /\ CollectorIdle /\ ScanIdle /\ SchedIdle
    /\ ImagesIdle /\ CronIdle /\ ReadIdle
    /\ StoreIdle
    /\ ProcessIdle
PageNext ==
    \/ FetchPage
    \/ ReturnStore
SpecPage == PageInit /\ [][PageNext]_vars

StoreInit ==
    /\ InitStore
    /\ ValidateIdle /\ DiffIdle /\ CollectorIdle /\ ScanIdle /\ SchedIdle
    /\ ImagesIdle /\ CronIdle /\ ReadIdle /\ PageIdle
    /\ ProcessIdle
StoreNext == ScanCompetitor
SpecStore == StoreInit /\ [][StoreNext]_vars

CadenceInit ==
    /\ InitCadence
    /\ ValidateIdle /\ DiffIdle /\ CollectorIdle /\ ScanIdle /\ ImagesIdle
    /\ CronIdle /\ ReadIdle /\ PageIdle /\ StoreIdle /\ ProcessIdle
CadenceNext ==
    \/ StartRun
    \/ CheckUser
    \/ EndRun
    \/ NextHour
SpecCadence == CadenceInit /\ [][CadenceNext]_vars

ProcessInit ==
    /\ InitProcess
    /\ ValidateIdle /\ DiffIdle /\ CollectorIdle /\ ScanIdle /\ SchedIdle
    /\ ImagesIdle /\ CronIdle /\ ReadIdle /\ PageIdle /\ StoreIdle
ProcessNext == ProcessScanResults
SpecProcess == ProcessInit /\ [][ProcessNext]_vars

\* One call of _enrich_images under the event loop: a task that can enter the
\* semaphore does, and a lookup in flight returns (its HTTP client has a
\* timeout).
ImagesCall ==
    \/ \E i \in 1..NumImages : EnterOne(i)
    \/ \E i \in 1..NumImages : LookupReturns(i)
SpecImagesFair ==
    /\ ImagesInit
    /\ [][ImagesCall]_vars
    /\ \A i \in 1..NumImages : WF_vars(EnterOne(i)) /\ WF_vars(LookupReturns(i))

====
